---- MODULE Spec2Model ----
(***************************************************************************)
(* Model of the egg packaging pipeline: compose (egg/composer.py),         *)
(* verify_archive (egg/hashing.py), and the build / hatch pipelines of     *)
(* egg_cli.py.                                                             *)
(*                                                                         *)
(* Conventions.  A path is a sequence of parts, as pathlib's .parts; the   *)
(* part "/" in first position is the root of an absolute path.  The host   *)
(* is POSIX, so str(path) and path.as_posix() both join the parts with     *)
(* "/".  File contents ("bytes") are tagged records; the tag is the field  *)
(* name: [raw |-> n] opaque bytes, [index |-> pairs] a YAML mapping of     *)
(* names to digests, [signer, msg] the hex text of a 64-byte signature,    *)
(* [badsig |-> k] text that is no such hex, [mname, cells] a manifest.     *)
(* SHA-256 and Ed25519 are ideal: digests of different bytes differ and a  *)
(* signature verifies only for the key pair and message it was made with.  *)
(***************************************************************************)
EXTENDS Integers, Sequences, FiniteSets, TLC

VARIABLES
    manifest,        \* the manifest file on disk: [mname, cells]
    files,           \* manifest directory: file name -> content id, or -1 when absent
    envPrivateKey,   \* EGG_PRIVATE_KEY of the process environment (a seed)
    output,          \* content of the output / egg path
    clock,           \* wall clock of the host
    lastCompose,     \* outcome of the last compose call: "none", "ok" or the exception
    tampered,        \* TRUE once a third party has rewritten the archive
    vres,            \* outcome of the last verify_archive call
    bpc,             \* position of the build pipeline
    bargs,           \* arguments of the running build
    prevOutput,      \* content of the output path before the last compose or build
    nbuilds,         \* number of builds started
    built,           \* per output of a finished compose: the inputs it read
    hpc,             \* position of the hatch pipeline
    hres,            \* what verify_archive returned to hatch
    extracted,       \* entry names extracted into hatch's temporary directory
    images,          \* languages whose sandbox image hatch prepared
    executed,        \* the cells hatch has executed, in order: [source, status]
    outs,            \* the <source>.out files: source name -> content
    cache,           \* precompute_hashes.yaml: a dict, or absent
    prun,            \* what the last precompute_cells run did
    pfiles,          \* the manifest directory as the last precompute_cells run saw it
    doc,             \* a YAML document given to load_manifest
    loaded,          \* what load_manifest made of doc: "none" before the call, "ok" or the exception
    destFile,        \* the destination file of _download_container
    tmpFile,         \* the transient file <dest>.tmp
    dlog,            \* the last _download_container call: arguments, requests made, outcome
    tree,            \* the paths below the root given to clean (tuples of names)
    tree0,           \* the paths below the root when clean was called
    cres,            \* the last clean call: [dry_run, err], err "none" before the call
    npath,           \* a cell source as written in a manifest: the string split at "/"
    nlog,            \* the _normalize_source calls made on npath and on its result
    vlog,            \* the verify_archive run in progress: position, key, phases passed
    fdeps,           \* the dependencies list of the manifest given to fetch_runtime_blocks
    ffs,             \* the files of that manifest's directory
    flog,            \* the last fetch_runtime_blocks call: registry, outcome, downloads, files before
    slangs,          \* the languages of the cells of the manifest given to prepare_images
    sdirs,           \* the directories that exist: a base directory or an image directory in one
    slog             \* the last prepare_images call and whether its release action was called

vars == <<manifest, files, envPrivateKey, output, clock, lastCompose, tampered,
          vres, bpc, bargs, prevOutput, built, nbuilds, hpc, hres, extracted, images,
          executed, outs, cache, prun, pfiles, doc, loaded,
          destFile, tmpFile, dlog, tree, tree0, cres,
          npath, nlog, vlog, fdeps, ffs, flog, slangs, sdirs, slog>>

\* The state of the commands that are not part of a pipeline.
manifestVars == <<doc, loaded>>
downloadVars == <<destFile, tmpFile, dlog>>
cleanVars == <<tree, tree0, cres>>
normalizeVars == <<npath, nlog>>
fetchVars == <<fdeps, ffs, flog>>
sandboxVars == <<slangs, sdirs, slog>>
commandVars == <<manifestVars, downloadVars, cleanVars, normalizeVars, vlog,
                 fetchVars, sandboxVars>>

\* What no pipeline writes: its inputs and the state of the other commands.
inputVars == <<manifest, envPrivateKey, commandVars>>
buildVars == <<bpc, bargs, built, nbuilds>>
hatchVars == <<hpc, hres, extracted, images, executed>>
precomputeVars == <<outs, cache, prun, pfiles>>

(***************************************************************************)
(* Bounds                                                                  *)
(***************************************************************************)
MaxCells == 2       \* cells per manifest
MaxContent == 1     \* file contents are 0..MaxContent
MaxClock == 1       \* clock values 0..MaxClock
MaxBuilds == 2      \* builds started in one behaviour
MaxNodes == 3       \* files and directories below the root given to clean
MaxSegs == 3        \* "/"-separated segments of a source string given to _normalize_source
MaxDeps == 2        \* entries of a dependencies list given to fetch_runtime_blocks

Contents == 0..MaxContent

(***************************************************************************)
(* Paths and names                                                         *)
(***************************************************************************)
\* pathlib.PurePath.is_absolute
is_absolute(p) == Len(p) > 0 /\ p[1] = "/"

\* Path.as_posix / str(Path) on a POSIX host
RECURSIVE JoinParts(_)
JoinParts(p) ==
    IF Len(p) = 0 THEN ""
    ELSE IF Len(p) = 1 THEN p[1]
    ELSE p[1] \o "/" \o JoinParts(Tail(p))

as_posix(p) ==
    IF Len(p) = 0 THEN "."
    ELSE IF is_absolute(p) THEN "/" \o JoinParts(Tail(p))
    ELSE JoinParts(p)

\* The paths that occur in this model.
PathUniverse ==
    { <<"a.py">>, <<"sub", "b.py">>, <<"sub", "..", "a.py">>,
      <<"..", "evil.py">>, <<"/", "abs.py">>, <<"hashes.yaml">>,
      <<"hashes.sig">>, <<"manifest.yaml">>, <<"custom.yaml">>,
      <<"missing.py">>, <<"extra.txt">>, <<>> }

\* PurePosixPath(name).parts
Parts(name) == CHOOSE p \in PathUniverse : as_posix(p) = name

\* Python's ordering of str, restricted to the names of this model
\* (code point order: "." < "/" < letters).
NameOrder ==
    << ".", "../evil.py", "/abs.py", "a.py", "custom.yaml", "extra.txt",
       "hashes.sig", "hashes.yaml", "manifest.yaml", "missing.py",
       "sub/../a.py", "sub/b.py" >>

Rank(name) == CHOOSE i \in 1..Len(NameOrder) : NameOrder[i] = name

\* Path.resolve(strict=False) of an absolute path without symbolic links
RECURSIVE ResolveFrom(_, _)
ResolveFrom(acc, rest) ==
    IF Len(rest) = 0 THEN acc
    ELSE IF rest[1] = ".."
         THEN ResolveFrom(IF Len(acc) > 1 THEN SubSeq(acc, 1, Len(acc) - 1) ELSE acc,
                          Tail(rest))
         ELSE ResolveFrom(Append(acc, rest[1]), Tail(rest))

resolveLexical(p) == p
resolve(p) == ResolveFrom(<<"/">>, Tail(p))

\* Path.is_relative_to(base)
is_relative_to(p, base) ==
    Len(p) >= Len(base) /\ SubSeq(p, 1, Len(base)) = base

\* Path.relative_to(base), for p below base
relative_to(p, base) == SubSeq(p, Len(base) + 1, Len(p))

\* The resolved directory that holds the manifest.
ManifestDir == <<"/", "proj">>

\* composer._normalize_source: the normalized relative path, or the error
normalize_source(path) ==
    IF is_absolute(path)
    THEN [err |-> "ValueError: Absolute source paths are not allowed", rel |-> <<>>]
    ELSE LET abs_path == resolve(ManifestDir \o path)
         IN IF ~ is_relative_to(abs_path, ManifestDir)
            THEN [err |-> "ValueError: Source path escapes manifest directory",
                  rel |-> <<>>]
            ELSE [err |-> "none", rel |-> relative_to(abs_path, ManifestDir)]

(***************************************************************************)
(* Bytes, digests, keys and signatures                                     *)
(***************************************************************************)
Raw(c) == [raw |-> c]
Index(pairs) == [index |-> pairs]
HexSig(signer, msg) == [signer |-> signer, msg |-> msg]
BadSig(kind) == [badsig |-> kind]
ManifestBytes(m) == [mname |-> m.mname, cells |-> m.cells, deps |-> m.deps]

IsIndex(b) == "index" \in DOMAIN b
IsHexSig(b) == "signer" \in DOMAIN b
IsManifest(b) == "cells" \in DOMAIN b

\* hashlib.sha256(data).hexdigest()
sha256(b) == [sha256 |-> b]

\* Seeds a signing key can be derived from; Seed32 is 32 bytes long.
Seed32 == "seed-of-32-bytes"
Seeds == {"egg-signing-key", "secret", Seed32}

\* hashing._signing_key: a 32-byte seed is used as it is, any other is hashed
signing_key(key) == IF key = Seed32 THEN key ELSE "sha256:" \o key

\* SigningKey.verify_key
verify_key_of(sk) == "vk:" \o sk

\* The public_key arguments of this model: None, the 32 raw bytes of a verify
\* key, its 64 hex characters, or bytes of another length.
NoKey == [none |-> TRUE]
RawKey(vk) == [rawkey |-> vk]
HexKey(vk) == [hexkey |-> vk]
OtherKey(s) == [otherkey |-> s]

PublicKeys ==
    {NoKey} \cup {RawKey(verify_key_of(signing_key(s))) : s \in Seeds}
            \cup {HexKey(verify_key_of(signing_key("secret"))), OtherKey("secret")}

\* hashing._verify_key, with EGG_PUBLIC_KEY unset
verify_key(key, defaultSeed) ==
    IF "none" \in DOMAIN key THEN verify_key_of(signing_key(defaultSeed))
    ELSE IF "hexkey" \in DOMAIN key THEN key.hexkey
    ELSE IF "rawkey" \in DOMAIN key THEN key.rawkey
    ELSE "sha256:" \o key.otherkey

\* hashing.sign_hashes: hex text of the signature of the file's bytes
sign_hashes(bytes, private_key) == HexSig(signing_key(private_key), bytes)

\* vk_verify that accepts a well-formed signature of the message by any key
vk_verify_any_key(vk, bytes, sig) == sig.msg = bytes

\* VerifyKey.verify on a 64-byte signature: TRUE, or FALSE for BadSignatureError
vk_verify(vk, bytes, sig) ==
    /\ verify_key_of(sig.signer) = vk
    /\ sig.msg = bytes

(***************************************************************************)
(* ZIP archives and the content of the output path                         *)
(***************************************************************************)
\* The timestamp compose gives every entry (1980-01-01 00:00:00).
FixedDateTime == <<1980, 1, 1, 0, 0, 0>>

\* What a path can hold: nothing, a file that is no archive, a ZIP file whose
\* writer was not closed, or a complete ZIP file (entries in written order).
Absent == [absent |-> TRUE]
OtherFile == [other |-> TRUE]
Partial(entries) == [partial |-> entries]
Zip(entries) == [zip |-> entries]

IsZip(f) == "zip" \in DOMAIN f
IsPartial(f) == "partial" \in DOMAIN f
Exists(f) == "absent" \notin DOMAIN f

Entry(name, data, dt) == [name |-> name, data |-> data, date_time |-> dt]

\* ZipFile.namelist()
namelist(entries) == [i \in 1..Len(entries) |-> entries[i].name]

NameSet(entries) == {entries[i].name : i \in 1..Len(entries)}

\* ZipFile.open(name).read(): the last entry written under the name
zf_read(entries, name) ==
    LET last == CHOOSE i \in 1..Len(entries) :
                    /\ entries[i].name = name
                    /\ \A j \in (i + 1)..Len(entries) : entries[j].name # name
    IN entries[last].data

\* sorted(seq, key=str): a stable insertion sort on the rank of the names
RECURSIVE InsertSorted(_, _)
InsertSorted(sorted, name) ==
    IF Len(sorted) = 0 THEN <<name>>
    ELSE IF Rank(name) < Rank(sorted[1])
         THEN <<name>> \o sorted
         ELSE <<sorted[1]>> \o InsertSorted(Tail(sorted), name)

RECURSIVE SortNames(_)
SortNames(names) ==
    IF Len(names) = 0 THEN <<>>
    ELSE InsertSorted(SortNames(SubSeq(names, 1, Len(names) - 1)), names[Len(names)])

IsSorted(names) ==
    \A i \in 1..(Len(names) - 1) : Rank(names[i]) <= Rank(names[i + 1])

(***************************************************************************)
(* hashing.py: the hash index                                              *)
(***************************************************************************)
\* A dict of str -> str is a sequence of <<key, value>> pairs in insertion
\* order, without repeated keys.
DictKeys(d) == {d[i][1] : i \in 1..Len(d)}
DictIndex(d, k) == (CHOOSE i \in 1..Len(d) : d[i][1] = k)

\* hashing.compute_hashes(files, base_dir=...): files are names relative to
\* base_dir, read(name) their bytes.
RECURSIVE compute_hashes_from(_, _, _)
compute_hashes_from(names, read, hashes) ==
    IF Len(names) = 0 THEN [err |-> "none", hashes |-> hashes]
    ELSE IF names[1] \in DictKeys(hashes)
         THEN [err |-> "ValueError: Duplicate file basename", hashes |-> hashes]
         ELSE compute_hashes_from(Tail(names), read,
                                  Append(hashes, <<names[1], sha256(read[names[1]])>>))

\* The index built without the test of line 93: a repeated name keeps its
\* one entry.
RECURSIVE overwrite_hashes_from(_, _, _)
overwrite_hashes_from(names, read, hashes) ==
    IF Len(names) = 0 THEN [err |-> "none", hashes |-> hashes]
    ELSE IF names[1] \in DictKeys(hashes)
         THEN overwrite_hashes_from(Tail(names), read, hashes)
         ELSE overwrite_hashes_from(Tail(names), read,
                                    Append(hashes, <<names[1], sha256(read[names[1]])>>))

compute_hashes_overwriting(names, read) == overwrite_hashes_from(names, read, <<>>)

compute_hashes(names, read) == compute_hashes_from(names, read, <<>>)

\* yaml.safe_dump(hashes, sort_keys=True): the pairs in ascending key order
SortedPairs(d) ==
    LET keys == SortNames([i \in 1..Len(d) |-> d[i][1]])
    IN [i \in 1..Len(keys) |-> d[DictIndex(d, keys[i])]]

\* hashing.write_hashes_file: the bytes written to the hashes file
write_hashes_file(hashes) == Index(SortedPairs(hashes))

(***************************************************************************)
(* composer.py                                                             *)
(***************************************************************************)
\* Path.is_file() and the bytes of a file of the manifest directory
is_file(m, fs, name) ==
    \/ name = m.mname
    \/ (name \in DOMAIN fs /\ fs[name] >= 0)

read_file(m, fs, name) ==
    IF name = m.mname THEN ManifestBytes(m) ELSE Raw(fs[name])

\* compose, lines 84-94: copy every cell source into the staging directory.
\* _collect_sources is a generator, so each source is normalized just
\* before it is copied.  st = [err, staged, copied].
RECURSIVE StageSources(_, _, _, _)
StageSources(m, fs, cells, st) ==
    IF Len(cells) = 0 THEN st
    ELSE LET n == normalize_source(cells[1].source)
             name == as_posix(n.rel)
         IN IF n.err # "none"
            THEN [st EXCEPT !.err = n.err]
            ELSE IF ~ is_file(m, fs, name) \/ Len(n.rel) = 0
            THEN [st EXCEPT !.err = "FileNotFoundError: Source file not found"]
            ELSE StageSources(m, fs, Tail(cells),
                    [err |-> "none",
                     staged |-> (name :> read_file(m, fs, name)) @@ st.staged,
                     copied |-> Append(st.copied, name)])

\* SIGNING_KEY of composer.py: the seed the package signs with by default
\* (hashing.DEFAULT_PRIVATE_KEY, read from EGG_PRIVATE_KEY at import).
SIGNING_KEY(envKey) == envKey

\* ZipEntries with each entry stamped with the time of the run
ZipEntriesNow(copied, staged, now) ==
    LET order == SortNames(copied)
    IN [i \in 1..Len(order) |-> Entry(order[i], staged[order[i]], <<2026, 1, 1, 0, 0, now>>)]

\* compose, lines 105-112: the entries written to the archive
ZipEntries(copied, staged, now) ==
    LET order == SortNames(copied)
    IN [i \in 1..Len(order) |-> Entry(order[i], staged[order[i]], FixedDateTime)]

\* composer.compose(manifest_path, output_path): the exception raised (or
\* "none") and the content of output_path afterwards.
compose(m, fs, envKey, now, prev) ==
    LET st0 == [err |-> "none",
                staged |-> (m.mname :> ManifestBytes(m)),
                copied |-> <<m.mname>>]
        st == StageSources(m, fs, m.cells, st0)
        h == compute_hashes(st.copied, st.staged)
        hashes_bytes == write_hashes_file(h.hashes)
        sig == sign_hashes(hashes_bytes, SIGNING_KEY(envKey))
        staged2 == ("hashes.sig" :> sig) @@ ("hashes.yaml" :> hashes_bytes) @@ st.staged
        copied2 == st.copied \o <<"hashes.yaml", "hashes.sig">>
    IN IF st.err # "none" THEN [err |-> st.err, out |-> prev]
       ELSE IF h.err # "none" THEN [err |-> h.err, out |-> prev]
       ELSE [err |-> "none", out |-> Zip(ZipEntries(copied2, staged2, now))]

(***************************************************************************)
(* hashing.verify_archive                                                  *)
(***************************************************************************)
\* SafeNames without the test for ".." parts
SafeNamesAbsoluteOnly(entries) ==
    \A i \in 1..Len(entries) : ~ is_absolute(Parts(entries[i].name))

\* Lines 156-159: no entry name is absolute or has a ".." part
SafeNames(entries) ==
    \A i \in 1..Len(entries) :
        LET p == Parts(entries[i].name)
        IN ~ is_absolute(p) /\ \A k \in 1..Len(p) : p[k] # ".."

\* bytes.fromhex(text.strip()) succeeds
IsHexText(b) == IsHexSig(b) \/ ("badsig" \in DOMAIN b /\ b.badsig = "shorthex")

\* yaml.safe_load(hashes_bytes) or {}: the mapping, for bytes that hold one
ParsedIndex(b) == b.index

\* CheckEntries without the comparison of digests
RECURSIVE CheckEntriesPresenceOnly(_, _, _)
CheckEntriesPresenceOnly(entries, hashes, reads) ==
    IF Len(hashes) = 0 THEN [res |-> "ok", reads |-> reads]
    ELSE IF hashes[1][1] \notin NameSet(entries)
         THEN [res |-> "missing", reads |-> reads]
         ELSE CheckEntriesPresenceOnly(entries, Tail(hashes), reads \cup {hashes[1][1]})

\* Lines 180-187: every listed entry is present and has the listed digest.
\* The result is "ok", or "missing" / "mismatch" with the entries read so far.
RECURSIVE CheckEntries(_, _, _)
CheckEntries(entries, hashes, reads) ==
    IF Len(hashes) = 0 THEN [res |-> "ok", reads |-> reads]
    ELSE LET name == hashes[1][1]
             expected == hashes[1][2]
         IN IF name \notin NameSet(entries)
            THEN [res |-> "missing", reads |-> reads]
            ELSE IF sha256(zf_read(entries, name)) # expected
            THEN [res |-> "mismatch", reads |-> reads \cup {name}]
            ELSE CheckEntries(entries, Tail(hashes), reads \cup {name})

\* ClosureHolds that accepts entries the index does not list
ClosureListedOnly(entries, hashes) == DictKeys(hashes) \subseteq NameSet(entries)

\* Lines 189-194: the entry names other than the two metadata files are
\* exactly the listed names
ClosureHolds(entries, hashes) ==
    (NameSet(entries) \ {"hashes.yaml", "hashes.sig"}) = DictKeys(hashes)

\* verify_archive(archive, public_key=...): result is "OK" (True), "FAIL"
\* (False) or "ERROR" (an exception leaves the function); why names the
\* check that ended the run; phase is the last phase completed; reads are
\* the entries whose bytes were read.
verify_archive(f, public_key, envKey) ==
    LET vk == verify_key(public_key, envKey)
        Out(r, w, p, rd) == [result |-> r, why |-> w, phase |-> p, reads |-> rd]
    IN IF ~ IsZip(f) THEN Out("ERROR", "badzip", "None", {})
       ELSE LET entries == f.zip
                names == NameSet(entries)
            IN IF ~ SafeNames(entries) THEN Out("FAIL", "unsafe", "Open", {})
               ELSE IF "hashes.yaml" \notin names
               THEN Out("FAIL", "unsigned", "PathScanned", {})
               ELSE IF "hashes.sig" \notin names
               THEN Out("FAIL", "unsigned", "PathScanned", {"hashes.yaml"})
               ELSE LET hashes_bytes == zf_read(entries, "hashes.yaml")
                        sigtext == zf_read(entries, "hashes.sig")
                        meta == {"hashes.yaml", "hashes.sig"}
                    IN IF ~ IsHexText(sigtext)
                       THEN Out("ERROR", "fromhex", "PathScanned", meta)
                       ELSE IF ~ IsHexSig(sigtext)
                       THEN Out("ERROR", "siglength", "PathScanned", meta)
                       ELSE IF ~ vk_verify(vk, hashes_bytes, sigtext)
                       THEN Out("FAIL", "signature", "PathScanned", meta)
                       ELSE IF ~ IsIndex(hashes_bytes)
                       THEN Out("ERROR", "index", "Signed", meta)
                       ELSE LET hashes == ParsedIndex(hashes_bytes)
                                c == CheckEntries(entries, hashes, meta)
                            IN IF c.res # "ok"
                               THEN Out("FAIL", c.res, "Indexed", c.reads)
                               ELSE IF ~ ClosureHolds(entries, hashes)
                               THEN Out("FAIL", "closure", "EntriesChecked", c.reads)
                               ELSE Out("OK", "ok", "Closed", c.reads)

NoVerify == [result |-> "none", why |-> "none", phase |-> "None", reads |-> {}]

(***************************************************************************)
(* Inputs                                                                  *)
(***************************************************************************)
\* The source strings a cell of this model can have (as parts).
SourceChoices ==
    { <<"a.py">>, <<"sub", "b.py">>, <<"sub", "..", "a.py">>,
      <<"..", "evil.py">>, <<"/", "abs.py">>, <<"hashes.yaml">>,
      <<"missing.py">>, <<"manifest.yaml">> }

Cells == [language : {"python"}, source : SourceChoices]

CellSeqs == UNION {[1..n -> Cells] : n \in 0..MaxCells}

ManifestNames == {"manifest.yaml", "custom.yaml"}

\* A dependency entry: a path of the manifest directory (as parts), or an
\* image reference such as python:3.11.
LocalDep(path) == [path |-> path]
ImageDep(ref) == [image |-> ref]

DepSeqs == { <<>>, <<LocalDep(<<"a.py">>)>>, <<LocalDep(<<"missing.py">>)>>,
             <<ImageDep("python:3.11")>> }

Manifests == [mname : ManifestNames, cells : CellSeqs, deps : DepSeqs]

\* Files of the manifest directory besides the manifest; missing.py is absent.
FileNames == {"a.py", "sub/b.py", "hashes.yaml", "missing.py"}

InitFiles == [n \in FileNames |-> IF n = "missing.py" THEN -1 ELSE 0]

\* manifest.load_manifest accepts the cells (every source normalizes) and
\* every source is a file of the manifest directory.
WellFormed(m, fs) ==
    \A i \in 1..Len(m.cells) :
        LET n == normalize_source(m.cells[i].source)
        IN n.err = "none" /\ Len(n.rel) > 0 /\ is_file(m, fs, as_posix(n.rel))

\* The errors _normalize_source raises.
PathErrors ==
    { "ValueError: Absolute source paths are not allowed",
      "ValueError: Source path escapes manifest directory" }

\* A cell source that is absolute or leaves the manifest directory.
Escapes(m) ==
    \E i \in 1..Len(m.cells) : normalize_source(m.cells[i].source).err # "none"

NoBuild == [none |-> TRUE]

\* No precompute_cells run has been made.
NoRun == [err |-> "norun", ran |-> <<>>, unchanged |-> FALSE, hadOuts |-> FALSE,
          same |-> FALSE, changed |-> {}]

\* No <source>.out file exists.
NoOuts == [n \in FileNames |-> Absent]

\* No document has been given to load_manifest.
NoDoc == [fields |-> {}, cells |-> <<>>]

ManifestIdle ==
    /\ doc = NoDoc
    /\ loaded = "none"

\* No digest is expected of a download.
NoDigest == [nodigest |-> TRUE]

\* _download_container has not been called.
NoDownload == [called |-> FALSE, pc |-> "idle", err |-> "none", requests |-> 0,
               expected |-> NoDigest, before |-> Absent, served |-> Absent,
               fault |-> "none"]

DownloadIdle ==
    /\ destFile = Absent
    /\ tmpFile = Absent
    /\ dlog = NoDownload

\* clean has not been called.
NoClean == [dry_run |-> FALSE, err |-> "none"]

CleanIdle ==
    /\ tree = {}
    /\ tree0 = {}
    /\ cres = NoClean

\* _normalize_source has not been called on its own.
NoNormalize == [calls |-> 0, err |-> "none", rel |-> <<>>, source |-> "",
                err2 |-> "none", source2 |-> ""]

NormalizeIdle ==
    /\ npath = <<"">>
    /\ nlog = NoNormalize

\* No verify_archive run has been followed phase by phase.
NoVerifyRun == [pc |-> "idle", pub |-> NoKey, trace |-> <<>>, parsed |-> FALSE,
                compared |-> {}]

VerifyIdle == vlog = NoVerifyRun

\* fetch_runtime_blocks has not been called on a directory of its own.
NoFetch == [called |-> FALSE, registry |-> FALSE, err |-> "none",
            resolved |-> <<>>, downloads |-> <<>>, before |-> <<>>]

FetchIdle ==
    /\ fdeps = <<>>
    /\ ffs = <<>>
    /\ flog = NoFetch

\* prepare_images has not been called on a manifest of its own.
NoPrepare == [pc |-> "idle", given |-> FALSE, images |-> <<>>, dirs |-> <<>>,
              created |-> {}]

SandboxIdle ==
    /\ slangs = <<>>
    /\ sdirs = {}
    /\ slog = NoPrepare

\* The other commands have not been used.
CommandsIdle ==
    /\ ManifestIdle /\ DownloadIdle /\ CleanIdle /\ NormalizeIdle /\ VerifyIdle
    /\ FetchIdle /\ SandboxIdle

\* The pipelines at rest.
PipelinesIdle ==
    /\ bpc = "idle"
    /\ bargs = NoBuild
    /\ built = <<>>
    /\ nbuilds = 0
    /\ hpc = "idle"
    /\ hres = "none"
    /\ extracted = {}
    /\ images = {}
    /\ executed = <<>>
    /\ outs = NoOuts
    /\ cache = Absent
    /\ prun = NoRun
    /\ pfiles = InitFiles

(***************************************************************************)
(* SpecArchive: compose, third-party rewrites of the archive, verify       *)
(***************************************************************************)
InitArchive ==
    /\ manifest \in {m \in Manifests : m.deps = <<>>}
    /\ files = InitFiles
    /\ envPrivateKey \in {"egg-signing-key", Seed32}
    /\ output \in {Absent, OtherFile}
    /\ clock = 0
    /\ lastCompose = "none"
    /\ tampered = FALSE
    /\ vres = NoVerify
    /\ prevOutput = output
    /\ PipelinesIdle
    /\ CommandsIdle

\* compose(manifest_path, output_path)
Compose ==
    LET r == compose(manifest, files, envPrivateKey, clock, output)
    IN /\ lastCompose = "none"
       /\ lastCompose' = IF r.err = "none" THEN "ok" ELSE r.err
       /\ prevOutput' = output
       /\ output' = r.out
       /\ tampered' = FALSE
       /\ vres' = NoVerify
       /\ UNCHANGED <<inputVars, files, clock, buildVars, hatchVars, precomputeVars>>

\* The bytes a third party may put into an entry.
TamperData ==
    {Raw(c) : c \in Contents}
        \cup {BadSig("nonhex"), BadSig("shorthex"), HexSig("nobody", Raw(0))}

\* The names a third party may add.
TamperNames == {"extra.txt", "../evil.py", "/abs.py", "hashes.sig"}

\* Reading an archive into a dict and writing the dict back (as the tests
\* do to change an entry): one entry per name, in first-occurrence order,
\* each with the bytes ZipFile.read returns for the name.
RECURSIVE FirstOccurrences(_, _)
FirstOccurrences(names, seen) ==
    IF Len(names) = 0 THEN <<>>
    ELSE IF names[1] \in seen THEN FirstOccurrences(Tail(names), seen)
    ELSE <<names[1]>> \o FirstOccurrences(Tail(names), seen \cup {names[1]})

RewriteWith(entries, name, data) ==
    LET order == FirstOccurrences(namelist(entries), {})
    IN [i \in 1..Len(order) |->
            Entry(order[i],
                  IF order[i] = name THEN data ELSE zf_read(entries, order[i]),
                  FixedDateTime)]

RewriteWithout(entries, name) ==
    LET order == FirstOccurrences(namelist(entries), {name})
    IN [i \in 1..Len(order) |->
            Entry(order[i], zf_read(entries, order[i]), FixedDateTime)]

TamperUnchanged ==
    UNCHANGED <<inputVars, files, clock, lastCompose, prevOutput, buildVars,
                hatchVars, precomputeVars>>

\* Replace the bytes of one entry.
TamperReplace ==
    /\ IsZip(output) /\ ~ tampered
    /\ \E name \in NameSet(output.zip), data \in TamperData :
          /\ data # zf_read(output.zip, name)
          /\ output' = Zip(RewriteWith(output.zip, name, data))
    /\ tampered' = TRUE
    /\ vres' = NoVerify
    /\ TamperUnchanged

\* ZipFile(path, "a").writestr(name, data)
TamperAppend ==
    /\ IsZip(output) /\ ~ tampered
    /\ \E name \in TamperNames, data \in TamperData :
          output' = Zip(Append(output.zip, Entry(name, data, FixedDateTime)))
    /\ tampered' = TRUE
    /\ vres' = NoVerify
    /\ TamperUnchanged

\* Drop one entry.
TamperRemove ==
    /\ IsZip(output) /\ ~ tampered
    /\ \E name \in NameSet(output.zip) :
          output' = Zip(RewriteWithout(output.zip, name))
    /\ tampered' = TRUE
    /\ vres' = NoVerify
    /\ TamperUnchanged

\* egg_cli.verify: verify_archive(egg_path, public_key=pub) on an existing file
Verify ==
    /\ Exists(output)
    /\ \E pub \in PublicKeys :
          vres' = verify_archive(output, pub, envPrivateKey)
    /\ UNCHANGED <<inputVars, files, output, clock, lastCompose, tampered,
                   prevOutput, buildVars, hatchVars, precomputeVars>>

NextArchive == Compose \/ TamperReplace \/ TamperAppend \/ TamperRemove \/ Verify

SpecArchive == InitArchive /\ [][NextArchive]_vars

(***************************************************************************)
(* Claims checked under SpecArchive                                        *)
(***************************************************************************)
\* The public key derived from the seed compose signs with.
SignerPublicKey == RawKey(verify_key_of(signing_key(envPrivateKey)))

\* The archive compose wrote in this behaviour, before any rewrite.
ComposedArchive == compose(manifest, files, envPrivateKey, clock, prevOutput).out

HasUnsafeName(entries) ==
    \E i \in 1..Len(entries) :
        LET p == Parts(entries[i].name)
        IN is_absolute(p) \/ \E k \in 1..Len(p) : p[k] = ".."

\* C1: for every well-formed manifest whose sources exist, compose writes an
\* archive, and verify_archive with the public key of the signing seed
\* returns OK for it.
C1_RoundTrip ==
    (lastCompose # "none" /\ ~ tampered /\ WellFormed(manifest, files))
        => /\ lastCompose = "ok"
           /\ verify_archive(output, SignerPublicKey, envPrivateKey).result = "OK"

\* C2: when verify_archive returns OK for an archive, the archive with the
\* bytes of any one listed entry replaced by different bytes (hashes.yaml and
\* hashes.sig kept) is not OK under the same key.
C2_TamperDetected ==
    IsZip(output) =>
        \A pub \in PublicKeys :
            verify_archive(output, pub, envPrivateKey).result = "OK"
                => \A name \in DictKeys(zf_read(output.zip, "hashes.yaml").index),
                      data \in TamperData :
                        data # zf_read(output.zip, name)
                            => verify_archive(Zip(RewriteWith(output.zip, name, data)),
                                              pub, envPrivateKey).result # "OK"

C2_Witness ==
    /\ tampered /\ vres.result = "FAIL" /\ vres.why = "mismatch"
    /\ verify_archive(ComposedArchive, SignerPublicKey, envPrivateKey).result = "OK"
    /\ namelist(output.zip) = namelist(ComposedArchive.zip)

\* C3: verify_archive returns OK only if the entry names other than
\* hashes.yaml and hashes.sig are exactly the names listed in hashes.yaml;
\* an OK archive stops being OK when an unlisted entry is added or a listed
\* entry is removed.
C3_Closure ==
    IsZip(output) =>
        \A pub \in PublicKeys :
            verify_archive(output, pub, envPrivateKey).result = "OK"
                => LET listed == DictKeys(zf_read(output.zip, "hashes.yaml").index)
                   IN /\ NameSet(output.zip) \ {"hashes.yaml", "hashes.sig"} = listed
                      /\ \A name \in TamperNames \ (listed \cup {"hashes.yaml", "hashes.sig"}),
                            data \in TamperData :
                            verify_archive(
                                Zip(Append(output.zip, Entry(name, data, FixedDateTime))),
                                pub, envPrivateKey).result # "OK"
                      /\ \A name \in listed :
                            verify_archive(Zip(RewriteWithout(output.zip, name)),
                                           pub, envPrivateKey).result # "OK"

C3_Witness ==
    /\ tampered /\ vres.result = "FAIL" /\ vres.why = "closure"
    /\ "extra.txt" \in NameSet(output.zip)

\* C4: an archive whose hashes.sig was made with seed s is not OK under any
\* public key other than the one derived from s, whatever its entries hold.
C4_WrongKey ==
    (IsZip(output) /\ "hashes.sig" \in NameSet(output.zip))
        => LET sig == zf_read(output.zip, "hashes.sig")
           IN \A s \in Seeds, pub \in PublicKeys :
                (/\ IsHexSig(sig)
                 /\ sig.signer = signing_key(s)
                 /\ verify_key(pub, envPrivateKey) # verify_key_of(signing_key(s)))
                    => verify_archive(output, pub, envPrivateKey).result # "OK"

C4_Witness ==
    /\ lastCompose = "ok" /\ ~ tampered
    /\ vres.result = "FAIL" /\ vres.why = "signature"

\* C5: an archive with an entry name that is absolute or has a ".." part is
\* rejected (False) under every key, and no entry has been read when it is.
C5_PathSafety ==
    (IsZip(output) /\ HasUnsafeName(output.zip))
        => \A pub \in PublicKeys :
              LET r == verify_archive(output, pub, envPrivateKey)
              IN r.result = "FAIL" /\ r.reads = {}

C5_Witness ==
    /\ tampered /\ vres.result = "FAIL" /\ vres.why = "unsafe"
    /\ HasUnsafeName(output.zip)

\* C7: when a cell source is absolute or leaves the manifest directory,
\* compose fails with a path error and the output path is as it was before.
C7_ComposePathEscape ==
    (lastCompose # "none" /\ ~ tampered /\ Escapes(manifest))
        => /\ lastCompose \in PathErrors
           /\ output = prevOutput

\* The archive has no hashes.yaml or no hashes.sig, or its hashes.sig is not
\* the hexadecimal form of a 64-byte signature.
Unsigned(entries) ==
    \/ "hashes.yaml" \notin NameSet(entries)
    \/ "hashes.sig" \notin NameSet(entries)
    \/ ~ IsHexSig(zf_read(entries, "hashes.sig"))

\* C12: verify_archive on an archive without hashes.yaml or hashes.sig, or
\* with a hashes.sig that is not the hex form of a 64-byte signature,
\* returns False (it does not raise), and compares no entry digest.
C12_UnsignedArchives ==
    (vres.result # "none" /\ IsZip(output) /\ Unsigned(output.zip))
        => /\ vres.result = "FAIL"
           /\ vres.reads \subseteq {"hashes.yaml", "hashes.sig"}

\* C14: whatever the file name of the input manifest, the archive compose
\* writes holds the manifest under the name manifest.yaml and has no entry
\* named after the input file when that name is another one.
C14_FixedManifestName ==
    (lastCompose = "ok" /\ ~ tampered)
        => /\ "manifest.yaml" \in NameSet(output.zip)
           /\ zf_read(output.zip, "manifest.yaml") = ManifestBytes(manifest)
           /\ manifest.mname # "manifest.yaml"
                 => manifest.mname \notin NameSet(output.zip)

\* The ValueErrors compose can end with.
ComposeValueErrors == PathErrors \cup {"ValueError: Duplicate file basename"}

\* The normalized source of cell i, as compose stages it.
StagedName(m, i) == as_posix(normalize_source(m.cells[i].source).rel)

Normalizes(m, i) == normalize_source(m.cells[i].source).err = "none"

\* Two cells of the manifest normalize to the same source path.
RepeatedSource(m) ==
    \E i, j \in 1..Len(m.cells) :
        /\ i < j
        /\ Normalizes(m, i) /\ Normalizes(m, j)
        /\ StagedName(m, i) = StagedName(m, j)

\* The normalized cell sources are pairwise distinct and none of them is
\* the manifest file.
DistinctSources(m) ==
    /\ \A i \in 1..Len(m.cells) :
          Normalizes(m, i) /\ StagedName(m, i) # m.mname
    /\ \A i, j \in 1..Len(m.cells) :
          i # j => StagedName(m, i) # StagedName(m, j)

\* C29 as stated: whenever two cells normalize to the same source path,
\* compose ends with a ValueError and leaves the output path as it was; and
\* compose succeeds only when the normalized sources are pairwise distinct
\* and none is the manifest file.
C29_AsStated ==
    /\ (lastCompose # "none" /\ RepeatedSource(manifest))
          => /\ lastCompose \in ComposeValueErrors
             /\ output = prevOutput
    /\ lastCompose = "ok" => DistinctSources(manifest)

\* C29: when two cells normalize to the same source path, compose fails and
\* writes no archive to the output path, and when in addition every cell
\* source normalizes and is a file of the manifest directory the failure is
\* the ValueError of the duplicate key of the hash index; compose succeeds
\* only when the normalized cell sources are pairwise distinct and none of
\* them is the manifest file itself.
C29_RepeatedSource ==
    /\ (lastCompose # "none" /\ RepeatedSource(manifest))
          => /\ lastCompose # "ok"
             /\ output = prevOutput
             /\ WellFormed(manifest, files)
                   => lastCompose = "ValueError: Duplicate file basename"
    /\ lastCompose = "ok" => DistinctSources(manifest)

\* compose has failed on a manifest whose two cells are written differently
\* and normalize to the same path.
C29_Witness ==
    /\ lastCompose = "ValueError: Duplicate file basename"
    /\ output = prevOutput
    /\ Len(manifest.cells) = 2
    /\ manifest.cells[1].source # manifest.cells[2].source
    /\ StagedName(manifest, 1) = StagedName(manifest, 2)

(***************************************************************************)
(* manifest.py, runtime_fetcher.py, precompute.py                          *)
(***************************************************************************)
\* manifest._normalize_source: as composer's, returned in POSIX form
manifest_normalize_source(path) ==
    LET n == normalize_source(path)
    IN [err |-> n.err, rel |-> n.rel, source |-> as_posix(n.rel)]

\* manifest.load_manifest, lines 132-144: the cells with normalized sources,
\* or the error of the first source that does not normalize
RECURSIVE LoadCells(_, _)
LoadCells(cells, acc) ==
    IF Len(cells) = 0 THEN [err |-> "none", cells |-> acc]
    ELSE LET n == manifest_normalize_source(cells[1].source)
         IN IF n.err # "none" THEN [err |-> n.err, cells |-> acc]
            ELSE LoadCells(Tail(cells),
                           Append(acc, [language |-> cells[1].language,
                                        source |-> n.source]))

load_manifest(m) == LoadCells(m.cells, <<>>)

\* runtime_fetcher.fetch_runtime_blocks without a registry, lines 225-274:
\* image references are returned as they are, paths must be files below the
\* manifest directory.
RECURSIVE FetchDeps(_, _, _, _, _)
FetchDeps(m, fs, deps, seen, resolved) ==
    IF Len(deps) = 0 THEN [err |-> "none", resolved |-> resolved]
    ELSE LET dep == deps[1]
         IN IF dep \in seen
            THEN [err |-> "ValueError: Duplicate dependency entry", resolved |-> resolved]
            ELSE IF "image" \in DOMAIN dep
            THEN FetchDeps(m, fs, Tail(deps), seen \cup {dep}, Append(resolved, dep))
            ELSE IF is_absolute(dep.path)
            THEN [err |-> "ValueError: Absolute dependency paths are not allowed",
                  resolved |-> resolved]
            ELSE LET abs_path == resolve(ManifestDir \o dep.path)
                 IN IF ~ is_relative_to(abs_path, ManifestDir)
                    THEN [err |-> "ValueError: Dependency path escapes manifest directory",
                          resolved |-> resolved]
                    ELSE IF ~ is_file(m, fs, as_posix(relative_to(abs_path, ManifestDir)))
                    THEN [err |-> "FileNotFoundError: Dependency file not found",
                          resolved |-> resolved]
                    ELSE FetchDeps(m, fs, Tail(deps), seen \cup {dep},
                                   Append(resolved, LocalDep(abs_path)))

fetch_runtime_blocks(m, fs) == FetchDeps(m, fs, m.deps, {}, <<>>)

\* utils.get_lang_command with the default table and every runtime installed
SupportedLanguages == {"python", "r", "bash"}

\* The captured output of running a source with the given bytes; a run that
\* exits non-zero leaves what it had written so far.
OutFile(c, complete) == [of |-> c, complete |-> complete]

DictValue(d, k) == d[DictIndex(d, k)][2]

\* CacheHit that never finds the output reusable
CacheHitNever(prev_hashes, src, digest, out_file) == FALSE

\* precompute_cells, line 45: the cached digest is the source's digest and
\* the .out file exists
CacheHit(prev_hashes, src, digest, out_file) ==
    /\ src \in DictKeys(prev_hashes)
    /\ DictValue(prev_hashes, src) = digest
    /\ Exists(out_file)

\* precompute.precompute_cells, lines 31-50: the loop over the cells.  failing
\* are the sources whose command exits non-zero in this run.
\* st = [err, outs, new_hashes, ran].
RECURSIVE PrecomputeLoop(_, _, _, _, _)
PrecomputeLoop(cells, fs, prev_hashes, failing, st) ==
    IF Len(cells) = 0 THEN st
    ELSE LET cell == cells[1]
             src == cell.source
         IN IF cell.language \notin SupportedLanguages
            THEN [st EXCEPT !.err = "ValueError: Unsupported language"]
            ELSE IF ~ (src \in DOMAIN fs /\ fs[src] >= 0)
            THEN [st EXCEPT !.err = "FileNotFoundError"]
            ELSE LET digest == sha256(Raw(fs[src]))
                     hashes == IF src \in DictKeys(st.new_hashes)
                               THEN st.new_hashes
                               ELSE Append(st.new_hashes, <<src, digest>>)
                     reuse == CacheHit(prev_hashes, src, digest, st.outs[src])
                 IN IF reuse
                    THEN PrecomputeLoop(Tail(cells), fs, prev_hashes, failing,
                                        [st EXCEPT !.new_hashes = hashes])
                    ELSE IF src \in failing
                    THEN [err |-> "CalledProcessError",
                          outs |-> [st.outs EXCEPT ![src] = OutFile(fs[src], FALSE)],
                          new_hashes |-> hashes,
                          ran |-> Append(st.ran, src)]
                    ELSE PrecomputeLoop(Tail(cells), fs, prev_hashes, failing,
                            [err |-> "none",
                             outs |-> [st.outs EXCEPT ![src] = OutFile(fs[src], TRUE)],
                             new_hashes |-> hashes,
                             ran |-> Append(st.ran, src)])

\* precompute_cells that writes the cache file also when a cell failed
precompute_cells_always_writes(m, fs, outFiles, cacheFile, failing) ==
    LET lm == load_manifest(m)
        prev_hashes == IF Exists(cacheFile) THEN cacheFile.index ELSE <<>>
        st == PrecomputeLoop(lm.cells, fs, prev_hashes, failing,
                             [err |-> "none", outs |-> outFiles,
                              new_hashes |-> <<>>, ran |-> <<>>])
    IN IF lm.err # "none"
       THEN [err |-> lm.err, outs |-> outFiles, cache |-> cacheFile, ran |-> <<>>]
       ELSE [err |-> st.err, outs |-> st.outs,
             cache |-> write_hashes_file(st.new_hashes), ran |-> st.ran]

\* precompute.precompute_cells(manifest_path): the exception (or "none"), the
\* .out files and the cache file afterwards, and the sources executed.
precompute_cells(m, fs, outFiles, cacheFile, failing) ==
    LET lm == load_manifest(m)
        prev_hashes == IF Exists(cacheFile) THEN cacheFile.index ELSE <<>>
        st == PrecomputeLoop(lm.cells, fs, prev_hashes, failing,
                             [err |-> "none", outs |-> outFiles,
                              new_hashes |-> <<>>, ran |-> <<>>])
    IN IF lm.err # "none"
       THEN [err |-> lm.err, outs |-> outFiles, cache |-> cacheFile, ran |-> <<>>]
       ELSE IF st.err # "none"
       THEN [err |-> st.err, outs |-> st.outs, cache |-> cacheFile, ran |-> st.ran]
       ELSE [err |-> "none", outs |-> st.outs,
             cache |-> write_hashes_file(st.new_hashes), ran |-> st.ran]

(***************************************************************************)
(* SpecBuild: the build pipeline of egg_cli.py                             *)
(***************************************************************************)
\* The arguments of a build: --force, --precompute, --private-key (the seed
\* in the key file, or "none"); --public-key is not given.
BuildArgs == [force : BOOLEAN, precompute : BOOLEAN, private_key : {"none", "secret"}]

\* build, lines 55-59: the key the new archive is verified with
BuildPublicKey(args) ==
    IF args.private_key # "none"
    THEN RawKey(verify_key_of(signing_key(args.private_key)))
    ELSE NoKey

BuildSources == { <<"a.py">>, <<"sub", "b.py">>, <<"missing.py">> }

BuildManifests ==
    { m \in Manifests :
        /\ m.mname = "manifest.yaml"
        /\ \A i \in 1..Len(m.cells) : m.cells[i].source \in BuildSources
        /\ \A i \in 1..Len(m.deps) : "path" \in DOMAIN m.deps[i] }

BuildEnded == {"done", "cancelled", "failed:exists", "failed:fetch",
               "failed:precompute", "failed:compose", "failed:verify"}

InitBuild ==
    /\ manifest \in BuildManifests
    /\ files = InitFiles
    /\ envPrivateKey = "egg-signing-key"
    /\ output \in {Absent, OtherFile}
    /\ clock = 0
    /\ lastCompose = "none"
    /\ tampered = FALSE
    /\ vres = NoVerify
    /\ prevOutput = output
    /\ PipelinesIdle
    /\ CommandsIdle

\* BuildRefuses that never refuses
BuildRefusesNever(out, args) == FALSE

\* build, lines 42-43: output.exists() and not args.force
BuildRefuses(out, args) == Exists(out) /\ ~ args.force

\* build, lines 39-43: refuse an existing output unless --force is given
BuildStart ==
    /\ bpc = "idle"
    /\ nbuilds < MaxBuilds
    /\ nbuilds' = nbuilds + 1
    /\ \E args \in BuildArgs :
          /\ bargs' = args
          /\ bpc' = IF BuildRefuses(output, args) THEN "failed:exists" ELSE "fetch"
    /\ prevOutput' = output
    /\ lastCompose' = "none"
    /\ tampered' = FALSE
    /\ vres' = NoVerify
    /\ UNCHANGED <<inputVars, files, output, clock, built, hatchVars, precomputeVars>>

\* build, line 46: deps = fetch_runtime_blocks(manifest)
BuildFetch ==
    /\ bpc = "fetch"
    /\ bpc' = IF fetch_runtime_blocks(manifest, files).err # "none" THEN "failed:fetch"
              ELSE IF bargs.precompute THEN "precompute"
              ELSE "compose"
    /\ UNCHANGED <<inputVars, files, output, clock, lastCompose, tampered, vres,
                   prevOutput, bargs, built, nbuilds, hatchVars, precomputeVars>>

\* build, lines 48-49: precompute_cells(manifest)
BuildPrecompute ==
    /\ bpc = "precompute"
    /\ \E failing \in SUBSET {"a.py"} :
          LET r == precompute_cells(manifest, files, outs, cache, failing)
          IN /\ outs' = r.outs
             /\ cache' = r.cache
             /\ bpc' = IF r.err # "none" THEN "failed:precompute" ELSE "compose"
    /\ UNCHANGED <<inputVars, files, output, clock, lastCompose, tampered, vres,
                   prevOutput, bargs, built, nbuilds, hatchVars, prun, pfiles>>

\* build, line 61: compose(manifest, output, ...).  compose of composer.py
\* has no dependencies and no key parameter: it packages the manifest and
\* the cell sources and signs with SIGNING_KEY.
BuildCompose ==
    /\ bpc = "compose"
    /\ LET r == compose(manifest, files, envPrivateKey, clock, output)
       IN /\ lastCompose' = IF r.err = "none" THEN "ok" ELSE r.err
          /\ output' = r.out
          /\ bpc' = IF r.err = "none" THEN "verify" ELSE "failed:compose"
    /\ UNCHANGED <<inputVars, files, clock, tampered, vres, prevOutput, bargs,
                   built, nbuilds, hatchVars, precomputeVars>>

\* What the compose double writes over an entry: other file content, or
\* text that is not hexadecimal.
DoubleData == {Raw(c) : c \in Contents} \cup {BadSig("nonhex")}

\* build, line 61, when writing an entry fails (composer.py lines 105-112
\* write the entries one by one straight into output_path; an OSError from
\* zf.writestr leaves the entries written so far and is not handled).
BuildComposeWriteError ==
    /\ bpc = "compose"
    /\ LET r == compose(manifest, files, envPrivateKey, clock, output)
       IN /\ r.err = "none"
          /\ \E k \in 0..(Len(r.out.zip) - 1) :
                output' = Partial(SubSeq(r.out.zip, 1, k))
    /\ lastCompose' = "OSError"
    /\ bpc' = "failed:compose"
    /\ UNCHANGED <<inputVars, files, clock, tampered, vres, prevOutput, bargs,
                   built, nbuilds, hatchVars, precomputeVars>>

\* build with compose replaced by a double that rewrites one entry of the
\* archive after composing it (tests/test_cli.py, test_build_detects_tampering)
BuildComposeTampered ==
    /\ bpc = "compose"
    /\ LET r == compose(manifest, files, envPrivateKey, clock, output)
       IN /\ r.err = "none"
          /\ \E name \in NameSet(r.out.zip), data \in DoubleData :
                /\ data # zf_read(r.out.zip, name)
                /\ output' = Zip(RewriteWith(r.out.zip, name, data))
    /\ lastCompose' = "ok"
    /\ tampered' = TRUE
    /\ bpc' = "verify"
    /\ UNCHANGED <<inputVars, files, clock, vres, prevOutput, bargs, built, nbuilds,
                   hatchVars, precomputeVars>>

\* build, lines 63-65: verify the new archive; unlink it when the result is False
BuildVerify ==
    /\ bpc = "verify"
    /\ LET v == verify_archive(output, BuildPublicKey(bargs), envPrivateKey)
       IN /\ vres' = v
          /\ bpc' = IF v.result = "OK" THEN "done" ELSE "failed:verify"
          /\ output' = IF v.result = "FAIL" THEN Absent ELSE output
    /\ UNCHANGED <<inputVars, files, clock, lastCompose, tampered, prevOutput,
                   bargs, built, nbuilds, hatchVars, precomputeVars>>

\* The build is cancelled between two of its steps.
BuildCancel ==
    /\ bpc \in {"fetch", "precompute", "compose", "verify"}
    /\ bpc' = "cancelled"
    /\ UNCHANGED <<inputVars, files, output, clock, lastCompose, tampered, vres,
                   prevOutput, bargs, built, nbuilds, hatchVars, precomputeVars>>

\* The command has returned; the next build can start.
BuildReturn ==
    /\ bpc \in BuildEnded
    /\ bpc' = "idle"
    /\ bargs' = NoBuild
    /\ prevOutput' = output
    /\ lastCompose' = "none"
    /\ tampered' = FALSE
    /\ vres' = NoVerify
    /\ UNCHANGED <<inputVars, files, output, clock, built, nbuilds, hatchVars,
                   precomputeVars>>

NextBuild ==
    \/ BuildStart \/ BuildFetch \/ BuildPrecompute \/ BuildCompose
    \/ BuildComposeWriteError \/ BuildComposeTampered \/ BuildVerify \/ BuildCancel \/ BuildReturn

SpecBuild == InitBuild /\ [][NextBuild]_vars


(***************************************************************************)
(* Properties of the build pipeline                                        *)
(***************************************************************************)
\* C9: when the verification after compose does not succeed (returns False
\* or raises), the build fails and the output does not exist at its end;
\* when the build succeeds the output exists and verifies.
C9_BuildSelfVerification ==
    /\ (bpc \in BuildEnded /\ vres.result \in {"FAIL", "ERROR"})
          => (bpc = "failed:verify" /\ output = Absent)
    /\ bpc = "done"
          => /\ IsZip(output)
             /\ verify_archive(output, BuildPublicKey(bargs), envPrivateKey).result = "OK"

\* C10: at every end of a build the output is absent, or is what it was
\* before the build, or is a complete archive.
C10_NoPartialOutput ==
    bpc \in BuildEnded =>
        \/ output = Absent
        \/ output = prevOutput
        \/ IsZip(output)

RuntimeName(dep) == "runtime/" \o dep.path[Len(dep.path)]

\* C15: the archive compose writes holds every local-path dependency as
\* runtime/<basename>, listed in hashes.yaml; with two dependencies of the
\* same basename compose fails with a duplicate-dependency error and the
\* output is not written.
C15_DependencyPackaging ==
    LET f == fetch_runtime_blocks(manifest, files)
        local == {i \in 1..Len(f.resolved) : "path" \in DOMAIN f.resolved[i]}
        dup == \E i, j \in local :
                  i # j /\ RuntimeName(f.resolved[i]) = RuntimeName(f.resolved[j])
    IN /\ (bpc = "verify" /\ ~ tampered /\ ~ dup)
            => \A i \in local :
                  /\ RuntimeName(f.resolved[i]) \in NameSet(output.zip)
                  /\ RuntimeName(f.resolved[i])
                        \in DictKeys(ParsedIndex(zf_read(output.zip, "hashes.yaml")))
       /\ (dup /\ lastCompose # "none")
            => /\ lastCompose = "ValueError: Duplicate dependency basename"
               /\ output = prevOutput

(***************************************************************************)
(* SpecCompose: compose run again and again over a working tree that is    *)
(* edited and at different times                                           *)
(***************************************************************************)
\* The archives composed so far with the inputs they were composed from; the two
\* most recent are kept.
Remember(log, rec) ==
    LET all == Append(log, rec)
    IN IF Len(all) > 2 THEN Tail(all) ELSE all

InitCompose == InitArchive

\* compose(manifest_path, output_path), each successful run recorded
ComposeRun ==
    /\ LET r == compose(manifest, files, envPrivateKey, clock, output)
       IN /\ lastCompose' = IF r.err = "none" THEN "ok" ELSE r.err
          /\ output' = r.out
          /\ built' = IF r.err = "none"
                      THEN Remember(built, [inputs |-> <<manifest, files, envPrivateKey>>,
                                            at |-> clock, archive |-> r.out])
                      ELSE built
    /\ prevOutput' = output
    /\ UNCHANGED <<inputVars, files, clock, tampered, vres, bpc, bargs, nbuilds,
                   hatchVars, precomputeVars>>

\* Between two runs the user edits a source file.
EditSource ==
    /\ \E c \in Contents :
          /\ c # files["a.py"]
          /\ files' = [files EXCEPT !["a.py"] = c]
    /\ UNCHANGED <<inputVars, output, clock, lastCompose, tampered, vres,
                   prevOutput, buildVars, hatchVars, precomputeVars>>

\* Time passes between two runs.
Tick ==
    /\ clock < MaxClock
    /\ clock' = clock + 1
    /\ UNCHANGED <<inputVars, files, output, lastCompose, tampered, vres,
                   prevOutput, buildVars, hatchVars, precomputeVars>>

NextCompose == ComposeRun \/ EditSource \/ Tick

SpecCompose == InitCompose /\ [][NextCompose]_vars

HatchEnded == {"done", "failed:notfound", "failed:verify", "failed:extract",
               "failed:load", "failed:run"}

\* HatchGate with the test of the verification result left out
HatchGateOpen(v) == TRUE

\* hatch, lines 79-80: go on only when verify_archive returned True
HatchGate(v) == v.result = "OK"

InitHatch == InitArchive

\* hatch, lines 72-74: the archive must be a file
HatchStart ==
    /\ hpc = "idle"
    /\ lastCompose # "none"
    /\ hpc' = IF Exists(output) THEN "verify" ELSE "failed:notfound"
    /\ UNCHANGED <<inputVars, files, output, clock, lastCompose, tampered, vres,
                   prevOutput, buildVars, hres, extracted, images, executed,
                   precomputeVars>>

\* hatch, lines 75-80: verify_archive(egg_path, public_key=pub)
HatchVerify ==
    /\ hpc = "verify"
    /\ \E pub \in {NoKey, RawKey(verify_key_of(signing_key("secret")))} :
          LET v == verify_archive(output, pub, envPrivateKey)
          IN /\ hres' = v.result
             /\ hpc' = IF v.result # "ERROR" /\ HatchGate(v) THEN "extract"
                       ELSE "failed:verify"
    /\ UNCHANGED <<inputVars, files, output, clock, lastCompose, tampered, vres,
                   prevOutput, buildVars, extracted, images, executed,
                   precomputeVars>>

\* hatch, lines 82-87: open the archive, scan the names again, extractall
HatchExtract ==
    /\ hpc = "extract"
    /\ IF IsZip(output) /\ SafeNames(output.zip)
       THEN extracted' = NameSet(output.zip) /\ hpc' = "load"
       ELSE extracted' = extracted /\ hpc' = "failed:extract"
    /\ UNCHANGED <<inputVars, files, output, clock, lastCompose, tampered, vres,
                   prevOutput, buildVars, hres, images, executed, precomputeVars>>

\* hatch, lines 88-89: the manifest hatch loads from the temporary directory
HatchManifest ==
    IF "manifest.yaml" \notin extracted THEN [err |-> "FileNotFoundError", cells |-> <<>>]
    ELSE LET b == zf_read(output.zip, "manifest.yaml")
         IN IF ~ IsManifest(b) THEN [err |-> "ValueError", cells |-> <<>>]
            ELSE load_manifest(b)

\* hatch, lines 88-94: load_manifest, then prepare_images unless --no-sandbox
HatchPrepare ==
    /\ hpc = "load"
    /\ LET lm == HatchManifest
       IN IF lm.err # "none"
          THEN hpc' = "failed:load" /\ images' = images
          ELSE /\ hpc' = "run"
               /\ \E no_sandbox \in BOOLEAN :
                     images' = IF no_sandbox THEN {}
                               ELSE {lm.cells[i].language : i \in 1..Len(lm.cells)}
    /\ UNCHANGED <<inputVars, files, output, clock, lastCompose, tampered, vres,
                   prevOutput, buildVars, hres, extracted, executed, precomputeVars>>

\* AfterCell for subprocess.run without check=True
AfterCellUnchecked(outcome) == "run"

\* hatch, line 107: subprocess.run(..., check=True) returns for exit status
\* zero and raises CalledProcessError otherwise
AfterCell(outcome) == IF outcome = "ok" THEN "run" ELSE "failed:run"

\* hatch, lines 96-107: one turn of the loop over the cells; the runtime may
\* be missing and the cell's process may fail
HatchRunCell ==
    /\ hpc = "run"
    /\ LET cells == HatchManifest.cells
           i == Len(executed) + 1
       IN IF i > Len(cells)
          THEN hpc' = "done" /\ executed' = executed
          ELSE \E outcome \in {"ok", "no-runtime", "exit-nonzero"} :
                  /\ outcome = "ok" => cells[i].source \in extracted
                  /\ IF cells[i].language \notin SupportedLanguages \/ outcome = "no-runtime"
                     THEN hpc' = "failed:run" /\ executed' = executed
                     ELSE /\ executed' = Append(executed,
                                               [source |-> cells[i].source,
                                                status |-> outcome])
                          /\ hpc' = AfterCell(outcome)
    /\ UNCHANGED <<inputVars, files, output, clock, lastCompose, tampered, vres,
                   prevOutput, buildVars, hres, extracted, images, precomputeVars>>

\* The command has returned; its temporary directory is gone.
HatchReturn ==
    /\ hpc \in HatchEnded
    /\ hpc' = "idle"
    /\ hres' = "none"
    /\ extracted' = {}
    /\ images' = {}
    /\ executed' = <<>>
    /\ UNCHANGED <<inputVars, files, output, clock, lastCompose, tampered, vres,
                   prevOutput, buildVars, precomputeVars>>

\* Composing and changing the archive happen between hatches.
HatchIdle == hpc = "idle"

NextHatch ==
    \/ (HatchIdle /\ Compose)
    \/ (HatchIdle /\ TamperReplace)
    \/ (HatchIdle /\ TamperAppend)
    \/ (HatchIdle /\ TamperRemove)
    \/ HatchStart \/ HatchVerify \/ HatchExtract \/ HatchPrepare
    \/ HatchRunCell \/ HatchReturn

SpecHatch == InitHatch /\ [][NextHatch]_vars

\* C6: hatch extracts no entry, prepares no image and executes no cell unless
\* verify_archive returned OK for the archive; when verification fails,
\* hatch stops with an error.
C6_HatchGate ==
    /\ (extracted # {} \/ images # {} \/ executed # <<>>)
          => /\ hres = "OK"
             /\ \E pub \in PublicKeys :
                   verify_archive(output, pub, envPrivateKey).result = "OK"
    /\ hres \in {"FAIL", "ERROR"}
          => (hpc = "failed:verify" /\ extracted = {} /\ images = {} /\ executed = <<>>)

\* A hatch of a changed archive that was stopped at verification.
C6_Witness ==
    /\ tampered
    /\ hpc = "failed:verify"
    /\ hres = "FAIL"
    /\ extracted = {}

CellSources(m) ==
    LET lm == load_manifest(m)
    IN IF lm.err # "none" THEN {}
       ELSE {lm.cells[i].source : i \in 1..Len(lm.cells)}

ElementsOf(seq) == {seq[i] : i \in 1..Len(seq)}

InitPrecompute ==
    /\ InitBuild
    /\ manifest.deps = <<>>
    /\ CellSources(manifest) \subseteq {"a.py", "sub/b.py"}
    /\ output = Absent

\* precompute_cells(manifest_path), with what the run saw and did
PrecomputeRun ==
    /\ \E failing \in SUBSET {"a.py", "sub/b.py"} :
          LET r == precompute_cells(manifest, files, outs, cache, failing)
              srcs == CellSources(manifest)
              prevOk == prun.err = "none"
          IN /\ outs' = r.outs
             /\ cache' = r.cache
             /\ prun' = [err |-> r.err,
                         ran |-> r.ran,
                         unchanged |-> prevOk /\ \A s \in srcs : files[s] = pfiles[s],
                         hadOuts |-> \A s \in srcs : Exists(outs[s]),
                         same |-> r.outs = outs /\ r.cache = cache,
                         changed |-> IF prevOk THEN {s \in srcs : files[s] # pfiles[s]}
                                     ELSE {}]
    /\ pfiles' = files
    /\ UNCHANGED <<inputVars, files, output, clock, lastCompose, tampered, vres,
                   prevOutput, buildVars, hatchVars>>

\* The user deletes a .out file.
DeleteOut ==
    /\ \E s \in {"a.py", "sub/b.py"} :
          /\ Exists(outs[s])
          /\ outs' = [outs EXCEPT ![s] = Absent]
    /\ UNCHANGED <<inputVars, files, output, clock, lastCompose, tampered, vres,
                   prevOutput, buildVars, hatchVars, cache, prun, pfiles>>

NextPrecompute == PrecomputeRun \/ EditSource \/ DeleteOut

SpecPrecompute == InitPrecompute /\ [][NextPrecompute]_vars

\* The run after a successful run, with no source changed and every .out
\* file in place, executes nothing and leaves the .out files and the cache
\* as they were.
SecondRunIdle ==
    (prun.unchanged /\ prun.hadOuts)
        => (prun.err = "none" /\ prun.ran = <<>> /\ prun.same)

C21_CacheInvariant ==
    Exists(cache) =>
        \A s \in DictKeys(cache.index) :
            Exists(outs[s]) =>
                /\ outs[s].complete
                /\ sha256(Raw(outs[s].of)) = DictValue(cache.index, s)

\* C22: after a run in which the command of a cell exited non-zero, the
\* .out file of that cell does not exist.
C22_FailureCleanup ==
    prun.err = "CalledProcessError"
        => ~ Exists(outs[prun.ran[Len(prun.ran)]])

RequiredFields == {"name", "description", "cells"}
OptionalFields == {"permissions", "dependencies", "author", "created", "license"}

\* The root fields and cell keys the documents are made of.
DocFields == {"name", "description", "cells", "author", "license", "version"}
CellKeys == {"language", "source", "timeout"}

CellDocs == [mapping : {TRUE}, keys : SUBSET CellKeys]
                \cup {[mapping |-> FALSE, keys |-> {}]}

CellDocSeqs == UNION {[1..n -> CellDocs] : n \in 0..MaxCells}

Docs == [fields : SUBSET DocFields, cells : CellDocSeqs]

\* load_manifest, lines 134-144: the checks on the cells, in order
RECURSIVE LoadCellDocs(_)
LoadCellDocs(cells) ==
    IF Len(cells) = 0 THEN "ok"
    ELSE IF ~ cells[1].mapping THEN "ValueError: Cell must be a mapping"
    ELSE IF "language" \notin cells[1].keys \/ "source" \notin cells[1].keys
    THEN "ValueError: Each cell requires 'language' and 'source'"
    ELSE LoadCellDocs(Tail(cells))

\* load_manifest, lines 68-144, on a document: "ok" or the exception
load_manifest_doc(d) ==
    IF ~ (RequiredFields \subseteq d.fields)
    THEN "ValueError: Missing required field"
    ELSE IF d.fields \ (RequiredFields \cup OptionalFields) # {}
    THEN "ValueError: Unknown field(s)"
    ELSE LoadCellDocs(d.cells)

\* No pipeline is used: an empty project and no archive.
PipelinesUnused ==
    /\ manifest = [mname |-> "manifest.yaml", cells |-> <<>>, deps |-> <<>>]
    /\ files = InitFiles
    /\ envPrivateKey = "egg-signing-key"
    /\ output = Absent
    /\ clock = 0
    /\ lastCompose = "none"
    /\ tampered = FALSE
    /\ vres = NoVerify
    /\ prevOutput = output
    /\ PipelinesIdle

InitManifest ==
    /\ PipelinesUnused
    /\ DownloadIdle
    /\ CleanIdle
    /\ NormalizeIdle
    /\ VerifyIdle
    /\ FetchIdle
    /\ SandboxIdle
    /\ doc \in Docs
    /\ loaded = "none"

\* load_manifest(path) on the document
LoadManifest ==
    /\ loaded = "none"
    /\ loaded' = load_manifest_doc(doc)
    /\ UNCHANGED <<manifest, envPrivateKey, doc, downloadVars, cleanVars,
                   normalizeVars, vlog, fetchVars, sandboxVars, files, output, clock,
                   lastCompose, tampered, vres, prevOutput, buildVars, hatchVars,
                   precomputeVars>>

NextManifest == LoadManifest

SpecManifest == InitManifest /\ [][NextManifest]_vars

\* C16: load_manifest rejects a document without name, description or
\* cells, with a root field outside the eight known ones, or with a cell
\* that is not a mapping with exactly the keys language and source.
C16_ClosedSchema ==
    (/\ loaded # "none"
     /\ \/ ~ (RequiredFields \subseteq doc.fields)
        \/ doc.fields \ (RequiredFields \cup OptionalFields) # {}
        \/ \E i \in 1..Len(doc.cells) :
              ~ doc.cells[i].mapping \/ doc.cells[i].keys # {"language", "source"})
        => loaded # "ok"

(***************************************************************************)
(* SpecDownload: runtime_fetcher._download_container called again and      *)
(* again for one destination                                               *)
(***************************************************************************)
\* The digests a caller may expect.
Digests == {sha256(Raw(c)) : c \in Contents}

\* What can go wrong with the GET: nothing, the request fails (URLError),
\* or fewer bytes arrive than Content-Length announced.
Faults == {"none", "urlerror", "truncated"}

\* UseCached that trusts every existing file
UseCachedIfExists(dest, expected_digest) == Exists(dest)

\* _download_container, lines 93-104: the existing file is kept when a digest
\* is expected and the file has it
UseCached(dest, expected_digest) ==
    /\ Exists(dest)
    /\ expected_digest # NoDigest
    /\ sha256(dest) = expected_digest

\* DownloadVerdict without the comparison with Content-Length
DownloadVerdictNoLength(expected_digest, received, fault) ==
    IF expected_digest # NoDigest /\ sha256(received) # expected_digest
    THEN "RuntimeError: Checksum mismatch"
    ELSE "none"

\* _download_container, lines 151-159: the exception raised after the
\* stream has ended, or "none"
DownloadVerdict(expected_digest, received, fault) ==
    IF fault = "truncated" THEN "RuntimeError: Incomplete download"
    ELSE IF expected_digest # NoDigest /\ sha256(received) # expected_digest
    THEN "RuntimeError: Checksum mismatch"
    ELSE "none"

InitDownload ==
    /\ PipelinesUnused
    /\ ManifestIdle
    /\ CleanIdle
    /\ NormalizeIdle
    /\ VerifyIdle
    /\ FetchIdle
    /\ SandboxIdle
    /\ destFile \in {Absent} \cup {Raw(c) : c \in Contents}
    /\ tmpFile \in {Absent, Partial(<<>>)}
    /\ dlog = NoDownload

DownloadUnchanged ==
    UNCHANGED <<manifest, envPrivateKey, manifestVars, cleanVars, normalizeVars,
                vlog, fetchVars, sandboxVars, files, output, clock, lastCompose, tampered, vres, prevOutput, buildVars,
                hatchVars, precomputeVars>>

\* _download_container, lines 92-113: return the cached file, or send the
\* GET and open <dest>.tmp.  served are the bytes the registry sends.
DownloadStart ==
    /\ dlog.pc \in {"idle", "done", "failed"}
    /\ \E expected \in {NoDigest} \cup Digests, c \in Contents, fault \in Faults :
          LET call == [called |-> TRUE, expected |-> expected, before |-> destFile,
                       served |-> Raw(c), fault |-> fault]
          IN IF UseCached(destFile, expected)
             THEN /\ dlog' = call @@ [pc |-> "done", err |-> "none", requests |-> 0]
                  /\ tmpFile' = tmpFile
             ELSE IF fault = "urlerror"
             THEN /\ dlog' = call @@ [pc |-> "failed", requests |-> 1,
                                      err |-> "RuntimeError: Failed to download"]
                  /\ tmpFile' = Absent
             ELSE /\ dlog' = call @@ [pc |-> "streaming", err |-> "none", requests |-> 1]
                  /\ tmpFile' = Partial(<<>>)
    /\ destFile' = destFile
    /\ DownloadUnchanged

\* _download_container, lines 127-149: the chunks are written to <dest>.tmp
DownloadStream ==
    /\ dlog.pc = "streaming"
    /\ tmpFile' = IF dlog.fault = "truncated" THEN Partial(<<dlog.served>>)
                  ELSE dlog.served
    /\ dlog' = [dlog EXCEPT !.pc = "received"]
    /\ destFile' = destFile
    /\ DownloadUnchanged

\* _download_container, lines 151-172: check length and digest, then rename
\* <dest>.tmp to dest, or unlink it and raise
DownloadFinish ==
    /\ dlog.pc = "received"
    /\ LET err == DownloadVerdict(dlog.expected, dlog.served, dlog.fault)
       IN /\ dlog' = [dlog EXCEPT !.pc = IF err = "none" THEN "done" ELSE "failed",
                                  !.err = err]
          /\ destFile' = IF err = "none" THEN tmpFile ELSE destFile
    /\ tmpFile' = Absent
    /\ DownloadUnchanged

NextDownload == DownloadStart \/ DownloadStream \/ DownloadFinish

SpecDownload == InitDownload /\ [][NextDownload]_vars

\* C17: with an existing destination whose SHA-256 is the expected digest,
\* _download_container makes no request and leaves the file as it is; with
\* an existing destination and no expected digest, or a digest the file does
\* not have, it makes a request and, when it succeeds, the file is what was
\* served.
C17_DownloadCache ==
    (dlog.pc \in {"done", "failed"} /\ Exists(dlog.before))
        => IF dlog.expected # NoDigest /\ sha256(dlog.before) = dlog.expected
           THEN dlog.requests = 0 /\ dlog.err = "none" /\ destFile = dlog.before
           ELSE /\ dlog.requests = 1
                /\ dlog.err = "none" => destFile = dlog.served

\* A call that found the expected digest on the existing file.
C17_Witness ==
    /\ dlog.pc = "done"
    /\ Exists(dlog.before)
    /\ dlog.expected = sha256(dlog.before)
    /\ dlog.requests = 0

NodeNames == <<"a.out", "keep.txt", "precompute_hashes.yaml", "sandbox", "sub">>
DirNames == {"sandbox", "sub"}

NameRank(n) == CHOOSE i \in 1..Len(NodeNames) : NodeNames[i] = n

Last(p) == p[Len(p)]
is_dir(t, p) == p \in t /\ Last(p) \in DirNames

\* p is q or lies below q.
Under(p, q) == Len(q) <= Len(p) /\ SubSeq(p, 1, Len(q)) = q

\* The order of pathlib paths: the tuples of parts, compared element by
\* element, a proper prefix before its extensions.
RECURSIVE PathLess(_, _)
PathLess(p, q) ==
    IF p = <<>> THEN q # <<>>
    ELSE IF q = <<>> THEN FALSE
    ELSE IF Head(p) = Head(q) THEN PathLess(Tail(p), Tail(q))
    ELSE NameRank(Head(p)) < NameRank(Head(q))

\* root.rglob(pattern) for the three patterns of clean.
CleanTargets(t) ==
    {p \in t : Last(p) = "precompute_hashes.yaml"}
        \cup {p \in t : Last(p) = "a.out"}
        \cup {p \in t : Last(p) = "sandbox" /\ is_dir(t, p)}

\* The removal loop over sorted(targets): rmtree for a directory, unlink for
\* anything else; unlink of a path that no longer exists raises
\* FileNotFoundError and ends the loop.
RECURSIVE CleanLoop(_, _)
CleanLoop(targets, t) ==
    IF targets = {} THEN [err |-> "ok", tree |-> t]
    ELSE LET path == CHOOSE p \in targets :
                         \A q \in targets : q = p \/ PathLess(p, q)
         IN IF is_dir(t, path)
            THEN CleanLoop(targets \ {path}, {p \in t : ~ Under(p, path)})
            ELSE IF path \in t
            THEN CleanLoop(targets \ {path}, t \ {path})
            ELSE [err |-> "FileNotFoundError", tree |-> t]

clean(t, dry_run) ==
    IF dry_run THEN [err |-> "ok", tree |-> t]
    ELSE CleanLoop(CleanTargets(t), t)

InitClean ==
    /\ PipelinesUnused
    /\ ManifestIdle
    /\ DownloadIdle
    /\ CleanIdle
    /\ NormalizeIdle
    /\ VerifyIdle
    /\ FetchIdle
    /\ SandboxIdle

CleanUnchanged ==
    UNCHANGED <<manifest, envPrivateKey, manifestVars, downloadVars,
                normalizeVars, vlog, fetchVars, sandboxVars, files, output, clock, lastCompose, tampered,
                vres, prevOutput, buildVars, hatchVars, precomputeVars>>

\* A file or directory appears below the root, in an existing directory.
CreateNode ==
    /\ cres.err = "none"
    /\ Cardinality(tree) < MaxNodes
    /\ \E parent \in {<<>>} \cup {p \in tree : is_dir(tree, p)} :
         \E i \in 1..Len(NodeNames) :
            /\ Append(parent, NodeNames[i]) \notin tree
            /\ tree' = tree \cup {Append(parent, NodeNames[i])}
    /\ UNCHANGED <<tree0, cres>>
    /\ CleanUnchanged

Clean ==
    /\ cres.err = "none"
    /\ \E dry_run \in BOOLEAN :
         LET r == clean(tree, dry_run)
         IN /\ tree' = r.tree
            /\ tree0' = tree
            /\ cres' = [dry_run |-> dry_run, err |-> r.err]
    /\ CleanUnchanged

NextClean == CreateNode \/ Clean

SpecClean == InitClean /\ [][NextClean]_vars

\* A path with a directory named sandbox among its ancestors or itself.
InSandbox(p) == \E i \in 1..Len(p) : p[i] = "sandbox"

\* C18: clean without --dry-run ends without error; afterwards no
\* precompute_hashes.yaml, no *.out file and no sandbox directory remains
\* below the root, and every other path outside a sandbox directory is
\* still there.
C18_Clean ==
    (cres.err # "none" /\ ~ cres.dry_run)
        => /\ cres.err = "ok"
           /\ CleanTargets(tree) = {}
           /\ \A p \in tree0 :
                (p \notin CleanTargets(tree0) /\ ~ InSandbox(p)) => p \in tree

(***************************************************************************)
(* manifest.py: _normalize_source on its own result                        *)
(***************************************************************************)
\* A source string is kept as str.split("/") gives it: "sub/../a.py" is
\* <<"sub", "..", "a.py">>, "/a.py" is <<"", "a.py">>, "" is <<"">>.
Segments == {"", ".", "..", "a.py", "sub"}

RECURSIVE SegStrings(_)
SegStrings(n) ==
    IF n = 0 THEN {}
    ELSE LET shorter == SegStrings(n - 1)
         IN {<<s>> : s \in Segments} \cup shorter
               \cup {Append(t, s) : t \in shorter, s \in Segments}

\* Path(str): a leading "/" is the root, empty and "." segments are dropped.
RECURSIVE DropDots(_)
DropDots(segs) ==
    IF Len(segs) = 0 THEN <<>>
    ELSE IF Head(segs) \in {"", "."} THEN DropDots(Tail(segs))
    ELSE <<Head(segs)>> \o DropDots(Tail(segs))

PathOf(segs) ==
    IF Len(segs) > 1 /\ segs[1] = "" THEN <<"/">> \o DropDots(Tail(segs))
    ELSE DropDots(segs)

\* Path.as_posix().split("/")
SplitPosix(p) ==
    IF Len(p) = 0 THEN <<".">>
    ELSE IF is_absolute(p) THEN <<"">> \o Tail(p)
    ELSE p

InitNormalize ==
    /\ PipelinesUnused
    /\ ManifestIdle
    /\ DownloadIdle
    /\ CleanIdle
    /\ npath \in SegStrings(MaxSegs)
    /\ nlog = NoNormalize
    /\ VerifyIdle
    /\ FetchIdle
    /\ SandboxIdle

NormalizeUnchanged ==
    UNCHANGED <<manifest, envPrivateKey, manifestVars, downloadVars, cleanVars,
                vlog, fetchVars, sandboxVars, files, output, clock, lastCompose, tampered, vres,
                prevOutput, buildVars, hatchVars, precomputeVars>>

\* _normalize_source(npath, manifest_dir)
NormalizeOnce ==
    /\ nlog.calls = 0
    /\ LET n == manifest_normalize_source(PathOf(npath))
       IN nlog' = [nlog EXCEPT !.calls = 1, !.err = n.err, !.rel = n.rel,
                               !.source = n.source]
    /\ UNCHANGED npath
    /\ NormalizeUnchanged

\* _normalize_source(result of the first call, manifest_dir)
NormalizeAgain ==
    /\ nlog.calls = 1
    /\ nlog.err = "none"
    /\ LET n == manifest_normalize_source(PathOf(SplitPosix(nlog.rel)))
       IN nlog' = [nlog EXCEPT !.calls = 2, !.err2 = n.err,
                               !.source2 = n.source]
    /\ UNCHANGED npath
    /\ NormalizeUnchanged

NextNormalize == NormalizeOnce \/ NormalizeAgain

SpecNormalize == InitNormalize /\ [][NextNormalize]_vars

\* C19: what _normalize_source returns for a relative path it accepts is a
\* relative POSIX path without ".." segments that lies inside the manifest
\* directory, and normalizing that result again returns the same value.
C19_NormalizeFixedPoint ==
    (nlog.calls >= 1 /\ nlog.err = "none")
        => /\ ~ is_absolute(PathOf(npath))
           /\ LET result == SplitPosix(nlog.rel)
              IN /\ result[1] # ""
                 /\ \A i \in 1..Len(result) : result[i] # ".."
                 /\ is_relative_to(ManifestDir \o PathOf(result), ManifestDir)
           /\ nlog.calls = 2 => (nlog.err2 = "none" /\ nlog.source2 = nlog.source)

\* "sub/../a.py" normalized to "a.py", and "a.py" normalized to itself.
C19_Witness ==
    /\ nlog.calls = 2
    /\ npath = <<"sub", "..", "a.py">>
    /\ nlog.source = "a.py"
    /\ nlog.source2 = "a.py"

(***************************************************************************)
(* hashing.verify_archive, phase by phase                                  *)
(***************************************************************************)
InitVerify == InitArchive

\* The archive is written, and rewritten by a third party, before it is
\* opened for verification.
ArchiveStep ==
    /\ vlog.pc = "idle"
    /\ Compose \/ TamperReplace \/ TamperAppend \/ TamperRemove

VerifyUnchanged ==
    UNCHANGED <<manifest, envPrivateKey, manifestVars, downloadVars, cleanVars,
                normalizeVars, fetchVars, sandboxVars, files, output, clock,
                lastCompose,
                tampered,
                vres, prevOutput, buildVars, hatchVars, precomputeVars>>

Passed(phase) == [vlog EXCEPT !.pc = phase, !.trace = Append(vlog.trace, phase)]
Stopped(outcome) == [vlog EXCEPT !.pc = outcome]

\* Lines 154-155: the key is chosen and the ZIP file is opened.
VerifyOpen ==
    /\ vlog.pc = "idle"
    /\ Exists(output)
    /\ \E pub \in PublicKeys :
          vlog' = IF IsZip(output)
                  THEN [vlog EXCEPT !.pc = "Open", !.pub = pub, !.trace = <<"Open">>]
                  ELSE [vlog EXCEPT !.pc = "ERROR", !.pub = pub]
    /\ VerifyUnchanged

\* Lines 156-159: the scan of the entry names.
VerifyPathScan ==
    /\ vlog.pc = "Open"
    /\ vlog' = IF SafeNames(output.zip) THEN Passed("PathScanned") ELSE Stopped("FAIL")
    /\ VerifyUnchanged

\* Lines 160-171: the raw bytes of hashes.yaml and the signature are read,
\* and the signature is verified over those bytes.
VerifySignature ==
    /\ vlog.pc = "PathScanned"
    /\ LET entries == output.zip
           vk == verify_key(vlog.pub, envPrivateKey)
       IN vlog' =
            IF {"hashes.yaml", "hashes.sig"} \subseteq NameSet(entries)
            THEN LET hashes_bytes == zf_read(entries, "hashes.yaml")
                     sigtext == zf_read(entries, "hashes.sig")
                 IN IF ~ IsHexText(sigtext) \/ ~ IsHexSig(sigtext)
                    THEN Stopped("ERROR")
                    ELSE IF vk_verify(vk, hashes_bytes, sigtext)
                    THEN Passed("Signed")
                    ELSE Stopped("FAIL")
            ELSE Stopped("FAIL")
    /\ VerifyUnchanged

\* Lines 173-178: hashes.yaml is parsed and its shape is checked.
VerifyIndex ==
    /\ vlog.pc = "Signed"
    /\ vlog' = IF IsIndex(zf_read(output.zip, "hashes.yaml"))
               THEN [Passed("Indexed") EXCEPT !.parsed = TRUE]
               ELSE [Stopped("ERROR") EXCEPT !.parsed = TRUE]
    /\ VerifyUnchanged

\* Lines 180-187: the digest of every listed entry is compared.
VerifyEntries ==
    /\ vlog.pc = "Indexed"
    /\ LET hashes == ParsedIndex(zf_read(output.zip, "hashes.yaml"))
           c == CheckEntries(output.zip, hashes, {})
       IN vlog' = IF c.res = "ok"
                  THEN [Passed("EntriesChecked") EXCEPT !.compared = c.reads]
                  ELSE [Stopped("FAIL") EXCEPT !.compared = c.reads]
    /\ VerifyUnchanged

\* Lines 189-194: the closure check.
VerifyClosure ==
    /\ vlog.pc = "EntriesChecked"
    /\ LET hashes == ParsedIndex(zf_read(output.zip, "hashes.yaml"))
       IN vlog' = IF ClosureHolds(output.zip, hashes)
                  THEN Passed("Closed")
                  ELSE Stopped("FAIL")
    /\ VerifyUnchanged

\* Line 196: return True.
VerifyReturnTrue ==
    /\ vlog.pc = "Closed"
    /\ vlog' = Passed("OK")
    /\ VerifyUnchanged

NextVerify ==
    \/ ArchiveStep
    \/ VerifyOpen
    \/ VerifyPathScan
    \/ VerifySignature
    \/ VerifyIndex
    \/ VerifyEntries
    \/ VerifyClosure
    \/ VerifyReturnTrue

SpecVerify == InitVerify /\ [][NextVerify]_vars

\* The run followed phase by phase ends as verify_archive does.
VerifyAgrees ==
    vlog.pc \in {"OK", "FAIL", "ERROR"}
        => verify_archive(output, vlog.pub, envPrivateKey).result = vlog.pc

\* C20: one verify_archive run passes through Open, PathScanned, Signed,
\* Indexed, EntriesChecked, Closed, OK in that order or stops in an error
\* outcome; hashes.yaml is parsed and entry digests are compared only when
\* the signature over the raw bytes of hashes.yaml verifies under the key of
\* the run, and OK is reached only after the closure check has held.
C20_VerificationOrder ==
    LET order == <<"Open", "PathScanned", "Signed", "Indexed",
                   "EntriesChecked", "Closed", "OK">>
        n == Len(vlog.trace)
        in_trace(phase) == \E i \in 1..n : vlog.trace[i] = phase
    IN /\ n <= Len(order)
       /\ vlog.trace = SubSeq(order, 1, n)
       /\ vlog.pc \in {"idle", "FAIL", "ERROR"} \/ (n > 0 /\ vlog.pc = order[n])
       /\ (vlog.parsed \/ vlog.compared # {} \/ in_trace("Signed"))
            => LET sig == zf_read(output.zip, "hashes.sig")
               IN /\ in_trace("Signed")
                  /\ IsHexSig(sig)
                  /\ sig.msg = zf_read(output.zip, "hashes.yaml")
                  /\ verify_key_of(sig.signer) = verify_key(vlog.pub, envPrivateKey)
       /\ vlog.compared # {} => vlog.parsed
       /\ in_trace("OK")
            => /\ in_trace("Closed")
               /\ (NameSet(output.zip) \ {"hashes.yaml", "hashes.sig"})
                     = DictKeys(zf_read(output.zip, "hashes.yaml").index)

\* A run that passed every phase and returned True.
C20_Witness ==
    /\ vlog.pc = "OK"
    /\ vlog.trace = <<"Open", "PathScanned", "Signed", "Indexed",
                      "EntriesChecked", "Closed", "OK">>
    /\ vlog.compared # {}

(***************************************************************************)
(* runtime_fetcher.fetch_runtime_blocks with and without a registry.  An   *)
(* entry of the dependencies list is a path string (its parts), an image   *)
(* string "name:tag" (the parts of the name and the tag), or a value that  *)
(* is no string.  Files are named by their parts below the manifest        *)
(* directory; a file holds bytes or is a symbolic link to another name.    *)
(***************************************************************************)
PathEntry(parts) == [path |-> parts]
ImageEntry(name, tag) == [image |-> name, tag |-> tag]
NotAString == [notstr |-> TRUE]
Link(target) == [link |-> target]
Served(dep) == [served |-> dep]

DepEntries ==
    { PathEntry(<<"a.py">>), PathEntry(<<"lib_1.img">>), PathEntry(<<"missing.py">>),
      PathEntry(<<"..", "evil.py">>),
      ImageEntry(<<"lib">>, "1"), ImageEntry(<<"a", "b">>, "1"),
      ImageEntry(<<"a_b">>, "1"), ImageEntry(<<"..", "x">>, "1"),
      NotAString }

DepLists == UNION {[1..n -> DepEntries] : n \in 0..MaxDeps}

IsImage(dep) == "image" \in DOMAIN dep
IsPath(dep) == "path" \in DOMAIN dep

FetchNames ==
    { <<"a.py">>, <<"lib_1.img">>, <<"a_b_1.img">>, <<"missing.py">>,
      <<"sub", "x.img">> }

\* The directories fetch_runtime_blocks is called in: a.py is a file,
\* missing.py is not there, the two image names may be taken already.
FetchDirs ==
    { [n \in FetchNames |->
         IF n = <<"a.py">> THEN Raw(0)
         ELSE IF n = <<"lib_1.img">> THEN lib
         ELSE IF n = <<"a_b_1.img">> THEN ab
         ELSE Absent] :
      lib \in {Absent, Raw(0)},
      ab \in {Absent, Link(<<"lib_1.img">>), Link(<<"sub", "x.img">>)} }

\* Path.resolve(strict=False) of a name below the manifest directory: a
\* symbolic link is replaced by its target
Deref(fs, name) ==
    IF name \in DOMAIN fs /\ "link" \in DOMAIN fs[name] THEN fs[name].link ELSE name

\* Path.is_file(), after resolve: a file that was there or was downloaded
IsFileIn(fs, name) ==
    name \in DOMAIN fs /\ ("raw" \in DOMAIN fs[name] \/ "served" \in DOMAIN fs[name])

\* lines 245: dep.replace("/", "_").replace("\\", "_").replace(":", "_")
RECURSIVE JoinUnderscore(_)
JoinUnderscore(parts) ==
    IF Len(parts) = 1 THEN parts[1]
    ELSE parts[1] \o "_" \o JoinUnderscore(Tail(parts))

Sanitize(dep) == JoinUnderscore(dep.image) \o "_" \o dep.tag

\* lines 235-242: the part before the first ":" must be a relative POSIX
\* path without ".." parts
ValidImageName(dep) ==
    /\ ~ is_absolute(dep.image)
    /\ \A k \in 1..Len(dep.image) : dep.image[k] # ".."

\* Duplicate that never reports an entry as seen
DuplicateNever(dep, seen) == FALSE

\* line 228: the entry has occurred before in the list
Duplicate(dep, seen) == dep \in seen

\* fetch_runtime_blocks, lines 225-274: the loop over the entries.  fail_at
\* is the position in the list of the entry whose download fails (0: none).
\* st = [err, resolved, seen, safe_names, fs, downloads], i the position.
RECURSIVE FetchLoop(_, _, _, _, _)
FetchLoop(deps, i, registry, fail_at, st) ==
    IF i > Len(deps) THEN st
    ELSE LET dep == deps[i]
             seen == st.seen \cup {dep}
         IN IF ~ (IsImage(dep) \/ IsPath(dep))
            THEN [st EXCEPT !.err = "ValueError: dependency entries must be strings"]
            ELSE IF Duplicate(dep, st.seen)
            THEN [st EXCEPT !.err = "ValueError: Duplicate dependency entry"]
            ELSE IF IsImage(dep)
            THEN IF ~ ValidImageName(dep)
                 THEN [st EXCEPT !.err = "ValueError: Invalid container image name"]
                 ELSE IF ~ registry
                 THEN FetchLoop(deps, i + 1, registry, fail_at,
                                [st EXCEPT !.seen = seen,
                                           !.resolved = Append(@, dep)])
                 ELSE LET safe == Sanitize(dep)
                          dest == Deref(st.fs, <<safe \o ".img">>)
                      IN IF safe \in st.safe_names
                         THEN [st EXCEPT !.err = "ValueError: Sanitized dependency name conflict"]
                         ELSE IF i = fail_at
                         THEN [st EXCEPT !.err = "RuntimeError: Failed to download"]
                         ELSE FetchLoop(deps, i + 1, registry, fail_at,
                                [st EXCEPT !.seen = seen,
                                           !.safe_names = @ \cup {safe},
                                           !.fs = [@ EXCEPT ![dest] = Served(dep)],
                                           !.downloads = Append(@, [dep |-> dep, dest |-> dest]),
                                           !.resolved = Append(@, [abs |-> dest])])
            ELSE IF is_absolute(dep.path)
            THEN [st EXCEPT !.err = "ValueError: Absolute dependency paths are not allowed"]
            ELSE LET abs_path == resolve(ManifestDir \o dep.path)
                 IN IF ~ is_relative_to(abs_path, ManifestDir)
                    THEN [st EXCEPT !.err = "ValueError: Dependency path escapes manifest directory"]
                    ELSE LET name == Deref(st.fs, relative_to(abs_path, ManifestDir))
                         IN IF ~ IsFileIn(st.fs, name)
                            THEN [st EXCEPT !.err = "FileNotFoundError: Dependency file not found"]
                            ELSE FetchLoop(deps, i + 1, registry, fail_at,
                                    [st EXCEPT !.seen = seen,
                                               !.resolved = Append(@, [abs |-> name])])

fetch_blocks(deps, fs, registry, fail_at) ==
    FetchLoop(deps, 1, registry, fail_at,
              [err |-> "none", resolved |-> <<>>, seen |-> {}, safe_names |-> {},
               fs |-> fs, downloads |-> <<>>])

InitFetch ==
    /\ PipelinesUnused
    /\ ManifestIdle
    /\ DownloadIdle
    /\ CleanIdle
    /\ NormalizeIdle
    /\ VerifyIdle
    /\ SandboxIdle
    /\ fdeps \in DepLists
    /\ ffs \in FetchDirs
    /\ flog = NoFetch

FetchUnchanged ==
    UNCHANGED <<manifest, envPrivateKey, manifestVars, downloadVars, cleanVars,
                normalizeVars, vlog, sandboxVars, files, output, clock, lastCompose,
                tampered, vres, prevOutput, buildVars, hatchVars, precomputeVars>>

\* fetch_runtime_blocks(manifest_path), EGG_REGISTRY_URL set or not
FetchCall ==
    /\ ~ flog.called
    /\ \E registry \in BOOLEAN, fail_at \in 0..Len(fdeps) :
          /\ (fail_at # 0 => (registry /\ IsImage(fdeps[fail_at])))
          /\ LET r == fetch_blocks(fdeps, ffs, registry, fail_at)
             IN /\ ffs' = r.fs
                /\ flog' = [called |-> TRUE, registry |-> registry, err |-> r.err,
                            resolved |-> IF r.err = "none" THEN r.resolved ELSE <<>>,
                            downloads |-> r.downloads, before |-> ffs]
    /\ UNCHANGED fdeps
    /\ FetchUnchanged

NextFetch == FetchCall

SpecFetch == InitFetch /\ [][NextFetch]_vars

\* The file a path entry names, when the path stays below the manifest
\* directory.
LocalName(fs, dep) ==
    Deref(fs, relative_to(resolve(ManifestDir \o dep.path), ManifestDir))

StaysInside(dep) ==
    /\ ~ is_absolute(dep.path)
    /\ is_relative_to(resolve(ManifestDir \o dep.path), ManifestDir)

\* C26: fetch_runtime_blocks returns one element per entry, in the order of
\* the list; it fails when an entry is no string or a string occurs twice;
\* without a registry an image entry is returned as it is written and no
\* file is created or changed.
C26_ResolverOutput ==
    flog.called =>
      /\ flog.err = "none" =>
            /\ Len(flog.resolved) = Len(fdeps)
            /\ \A i \in 1..Len(fdeps) :
                  IF IsImage(fdeps[i])
                  THEN IF flog.registry
                       THEN flog.resolved[i] =
                               [abs |-> Deref(flog.before, <<Sanitize(fdeps[i]) \o ".img">>)]
                       ELSE flog.resolved[i] = fdeps[i]
                  ELSE flog.resolved[i] = [abs |-> LocalName(flog.before, fdeps[i])]
      /\ (\E i \in 1..Len(fdeps) : fdeps[i] = NotAString) => flog.err # "none"
      /\ (\E i, j \in 1..Len(fdeps) : i < j /\ fdeps[i] = fdeps[j]) => flog.err # "none"
      /\ ~ flog.registry => (ffs = flog.before /\ flog.downloads = <<>>)

\* Two image entries and no registry: both are returned as written.
C26_Witness ==
    /\ flog.called /\ ~ flog.registry
    /\ flog.err = "none"
    /\ Len(fdeps) = 2
    /\ IsImage(fdeps[1]) /\ IsImage(fdeps[2])
    /\ flog.resolved = fdeps

\* C27: with a registry, no two image entries of one call are downloaded to
\* the same destination file, and every destination is a file directly
\* inside the manifest directory.
C27_DownloadDestinations ==
    (flog.called /\ flog.registry) =>
      /\ \A i, j \in 1..Len(flog.downloads) :
            i < j => flog.downloads[i].dest # flog.downloads[j].dest
      /\ \A i \in 1..Len(flog.downloads) : Len(flog.downloads[i].dest) = 1

\* C30: resolving the dependencies changes no file that the manifest names
\* as a path dependency or as a cell source (a.py), and a download writes
\* only to a destination that no other entry refers to.
C30_ResolverFrame ==
    flog.called =>
      LET referenced ==
            {<<"a.py">>} \cup
            {LocalName(flog.before, fdeps[i]) :
                 i \in {k \in 1..Len(fdeps) : IsPath(fdeps[k]) /\ StaysInside(fdeps[k])}}
      IN /\ \A n \in referenced : ffs[n] = flog.before[n]
         /\ \A d \in 1..Len(flog.downloads) :
               flog.downloads[d].dest \notin referenced

(***************************************************************************)
(* sandboxer.prepare_images and the release action it returns, on a        *)
(* supported platform.  A directory is <<base>> or <<base, image name>>.   *)
(***************************************************************************)
CellLanguages == {"python", "Python", "r", "bash"}

LanguageLists == UNION {[1..n -> CellLanguages] : n \in 0..MaxCells}

\* str.lower() on the languages of this model
Lower(lang) == IF lang = "Python" THEN "python" ELSE lang

TempBase == "tmp"
GivenBase == "given"

\* prepare_images, lines 135-147: the languages in first-seen order
RECURSIVE ImageOrder(_, _)
ImageOrder(langs, keys) ==
    IF Len(langs) = 0 THEN keys
    ELSE LET lang == Lower(Head(langs))
         IN IF \E i \in 1..Len(keys) : keys[i] = lang
            THEN ImageOrder(Tail(langs), keys)
            ELSE ImageOrder(Tail(langs), Append(keys, lang))

\* line 140: base / f"{lang}-image"
ImageDir(base, lang) == <<base, lang \o "-image">>

\* prepare_images(manifest, base_dir): the images mapping (keys in insertion
\* order, with their directories) and the directories that exist afterwards;
\* mkdir(parents=True, exist_ok=True) also makes a missing base directory
prepare_images(langs, given, dirs) ==
    LET base == IF given THEN GivenBase ELSE TempBase
        keys == ImageOrder(langs, <<>>)
        made == {ImageDir(base, keys[i]) : i \in 1..Len(keys)}
        withBase == IF given /\ keys = <<>> THEN dirs ELSE dirs \cup {<<base>>}
    IN [images |-> keys,
        dirs |-> [i \in 1..Len(keys) |-> ImageDir(base, keys[i])],
        after |-> withBase \cup made]

\* The release action: tmp.cleanup() for a temporary base directory, _noop
\* for a base directory of the caller (lines 121-134)
release(given, dirs) ==
    IF given THEN dirs ELSE {d \in dirs : d[1] # TempBase}

InitSandbox ==
    /\ PipelinesUnused
    /\ ManifestIdle
    /\ DownloadIdle
    /\ CleanIdle
    /\ NormalizeIdle
    /\ VerifyIdle
    /\ FetchIdle
    /\ slangs \in LanguageLists
    /\ sdirs \in {{}, {<<GivenBase>>}}
    /\ slog = NoPrepare

SandboxUnchanged ==
    UNCHANGED <<manifest, envPrivateKey, manifestVars, downloadVars, cleanVars,
                normalizeVars, vlog, fetchVars, files, output, clock,
                lastCompose, tampered, vres, prevOutput, buildVars, hatchVars,
                precomputeVars>>

\* images, cleanup = prepare_images(manifest, base_dir) or
\* prepare_images(manifest)
PrepareImages ==
    /\ slog.pc = "idle"
    /\ \E given \in BOOLEAN :
          LET r == prepare_images(slangs, given, sdirs)
          IN /\ sdirs' = r.after
             /\ slog' = [pc |-> "prepared", given |-> given, images |-> r.images,
                         dirs |-> r.dirs, created |-> r.after \ sdirs]
    /\ UNCHANGED slangs
    /\ SandboxUnchanged

\* cleanup()
Release ==
    /\ slog.pc = "prepared"
    /\ sdirs' = release(slog.given, sdirs)
    /\ slog' = [slog EXCEPT !.pc = "released"]
    /\ UNCHANGED slangs
    /\ SandboxUnchanged

NextSandbox == PrepareImages \/ Release

SpecSandbox == InitSandbox /\ [][NextSandbox]_vars

\* The distinct lowercased languages of the cells.
DistinctLanguages == {Lower(slangs[i]) : i \in 1..Len(slangs)}

\* C28: prepare_images makes exactly one image directory per distinct
\* lowercased cell language, in first-seen order, and after the release
\* action none of the directories prepare_images created exists, whether the
\* base directory was a temporary one or was supplied by the caller.
C28_SandboxPlanning ==
    /\ slog.pc # "idle" =>
          /\ Len(slog.images) = Cardinality(DistinctLanguages)
          /\ {slog.images[i] : i \in 1..Len(slog.images)} = DistinctLanguages
          /\ \A i, j \in 1..Len(slog.images) :
                i < j => \E a \in 1..Len(slangs) :
                            /\ Lower(slangs[a]) = slog.images[i]
                            /\ \A b \in 1..a : Lower(slangs[b]) # slog.images[j]
          /\ Cardinality({slog.dirs[i] : i \in 1..Len(slog.dirs)}) = Len(slog.images)
    /\ slog.pc = "released" => slog.created \cap sdirs = {}

====
